---- MODULE Spec2Model ----
(***************************************************************************)
(* Model of the lamma-api caching and search engine:                       *)
(*   - CreatorCache  (src/src/services/creator-cache.ts)                   *)
(*   - KeywordIndex  (src/src/services/keyword-search.ts, lines 1-256)     *)
(* Requests are cooperative tasks: each action is the synchronous code     *)
(* between two awaits of one request.  The Distributed Cache (Redis) and   *)
(* the Document Store (Firestore) are external collaborators.              *)
(***************************************************************************)
EXTENDS Integers, Sequences, FiniteSets, TLC

\* ------------------------------------------------------------------------
\* Bounds of the model
\* ------------------------------------------------------------------------
MaxSnapTicks == 2
MaxLRUTicks == 2
MaxCalls == 2
MaxSnapCalls == 3
MaxUpdates == 1
MaxFailures == 1
MaxLRUCalls == 2
NumLRUKeys == 22
MaxSimCalls == 2
MaxUnpublished == 3
MaxSearchCalls == 1
MaxSearchUnpublished == 2

\* ------------------------------------------------------------------------
\* Program constants
\* ------------------------------------------------------------------------
CACHE_TTL_SECONDS == 300
REDIS_INDEX_TTL == 600
FILTERED_MAX_ENTRIES == 20
FILTERED_TTL_MS == 5 * 60 * 1000

CACHE_TTL_MS == CACHE_TTL_SECONDS * 1000
\* granularity of the clock: half a snapshot TTL, so that an age of exactly
\* one TTL (the boundary of the strict comparisons) is reached
TickMs == CACHE_TTL_MS \div 2

Procs == {1, 2}
LRUProcs == {1}

MaxFilterLen == 3
MaxListCalls == 3
MaxSignupCalls == 3
MaxKeyCalls == 3
MaxAgeTicks == 3
MaxAgeCalls == 2
MaxWbCalls == 2
MaxWbTicks == 2
MaxWbUnpublished == 2

\* optional values: <<>> is null/undefined, <<x>> is x
None == <<>>
Some(x) == <<x>>

\* ------------------------------------------------------------------------
\* Document Store content: the attributes of the creator documents are
\* fixed, their publication flag changes by external writes
\* ------------------------------------------------------------------------
CreatorIds == {1, 2}
DocCategories(i) == IF i = 1 THEN <<"c1", "c2">> ELSE <<"c2">>
DocRegion(i) == IF i = 1 THEN Some("eu") ELSE None
DocLanguages(i) == IF i = 1 THEN <<"en">> ELSE <<"en", "ar">>
DocGender(i) == IF i = 1 THEN Some("f") ELSE Some("m")

VARIABLES
    clock,            \* Date.now()
    redis,            \* is the Distributed Cache configured (lib/redis)
    store,            \* Document Store: id -> is_published
    updates,          \* number of external writes so far
    memCache,         \* creator-cache.ts: let memCache
    memCacheTime,     \* creator-cache.ts: let memCacheTime
    cachedIndex,      \* keyword-search.ts: let cachedIndex
    cachedCreatorRef, \* keyword-search.ts: let cachedCreatorRef
    filteredCache,    \* keyword-search.ts: filteredCache (Map, insertion order)
    redisSnap,        \* Distributed Cache key creators:keyword-cache
    redisIdx,         \* Distributed Cache key fuse:keyword-index
    inflight,         \* Distributed Cache writes/deletes issued, not yet applied
    nextRef,          \* next fresh object identity of a collection
    nextIid,          \* next fresh object identity of an index
    calls,            \* number of calls started
    req,              \* the requests: position and locals of each task
    hist,             \* history: (ref, timestamp) returned by getCachedCreators
    lastF,            \* history: last filtered search per filter key
    useOrder,         \* history: cached filter keys, least recently used first
    evict,            \* history: the last eviction (victim, least recently used)
    failed,           \* history: Distributed Cache operations that failed
    logged,           \* history: console.warn calls, by operation
    invalidated,      \* history: call number of the last invalidateCache
    docs,             \* Document Store: the creators collection of the routes
    sim,              \* the similarity requests: position and locals
    writes,           \* similarity write-backs issued, not yet applied
    simCalls,         \* number of similarity requests started
    simLog,           \* history: requests whose write-back failure was logged
    search,           \* the search requests: position and locals
    searchCalls,      \* number of search requests started
    filterRun,        \* one call of filterCreators: arguments and result
    listing,          \* the listing requests: position and locals
    listCalls,        \* number of listing requests started
    waitlist,         \* Document Store: the waitlist collection
    signup,           \* the waitlist requests: position and locals
    signupCalls       \* number of waitlist requests started

vars == <<clock, redis, store, updates, memCache, memCacheTime, cachedIndex,
          cachedCreatorRef, filteredCache, redisSnap, redisIdx, inflight,
          nextRef, nextIid, calls, req, hist, lastF, useOrder, evict,
          failed, logged, invalidated, docs, sim, writes, simCalls, simLog,
          search, searchCalls, filterRun, listing, listCalls, waitlist,
          signup, signupCalls>>

\* ------------------------------------------------------------------------
\* Helpers on sequences
\* ------------------------------------------------------------------------
Range(s) == {s[i] : i \in 1..Len(s)}

Includes(s, x) == \E i \in 1..Len(s) : s[i] = x

RECURSIVE SelectIdx(_, _, _)
\* the subsequence of s at the indices in keep, in order, from index i on
SelectIdx(s, keep, i) ==
    IF i > Len(s) THEN <<>>
    ELSE IF i \in keep THEN <<s[i]>> \o SelectIdx(s, keep, i + 1)
    ELSE SelectIdx(s, keep, i + 1)

RECURSIVE SeqOfIds(_, _)
\* the ids of S in increasing order, from i on
SeqOfIds(S, i) ==
    IF \A j \in S : j < i THEN <<>>
    ELSE IF i \in S THEN <<i>> \o SeqOfIds(S, i + 1)
    ELSE SeqOfIds(S, i + 1)

\* ------------------------------------------------------------------------
\* creator-cache.ts
\* ------------------------------------------------------------------------
\* one element of the array loadFromFirestore returns
CachedCreator(i) ==
    [id |-> i, categories |-> DocCategories(i), region |-> DocRegion(i),
     languages |-> DocLanguages(i), gender |-> DocGender(i),
     is_published |-> TRUE]

\* loadFromFirestore without the where clause, the flag copied from the data
loadFromFirestore_unfiltered ==
    LET ids == SeqOfIds(CreatorIds, 1)
    IN  [k \in 1..Len(ids) |->
           [CachedCreator(ids[k]) EXCEPT !.is_published = store[ids[k]]]]

\* the query .where('is_published', '==', true), mapped to CachedCreator
loadFromFirestore ==
    LET ids == SeqOfIds({i \in CreatorIds : store[i]}, 1)
    IN  [k \in 1..Len(ids) |-> CachedCreator(ids[k])]

Truthy(v) == v # None /\ v[1] # ""

\* filterCreators that accepts a record as soon as one set filter matches
filterCreators_anyFilter(creators, filters) ==
    LET set == {f \in {"category", "region", "language", "gender"} :
                  Truthy(filters[f])}
        ok(c) ==
          \/ set = {}
          \/ "category" \in set /\ Includes(c.categories, filters.category[1])
          \/ "region" \in set /\ c.region = filters.region
          \/ "language" \in set /\ Includes(c.languages, filters.language[1])
          \/ "gender" \in set /\ c.gender = filters.gender
    IN  SelectIdx(creators, {k \in 1..Len(creators) : ok(creators[k])}, 1)

filterCreators(creators, filters) ==
    LET ok(c) ==
          /\ Truthy(filters.category) => Includes(c.categories, filters.category[1])
          /\ Truthy(filters.region) => c.region = filters.region
          /\ Truthy(filters.language) => Includes(c.languages, filters.language[1])
          /\ Truthy(filters.gender) => c.gender = filters.gender
    IN  SelectIdx(creators, {k \in 1..Len(creators) : ok(creators[k])}, 1)


\* MemCacheValid with the TTL left in seconds against a clock in milliseconds
MemCacheValid_seconds(now) ==
    memCache # None /\ now - memCacheTime < CACHE_TTL_SECONDS

\* is the in-process entry present and within its TTL at time now
MemCacheValid(now) ==
    memCache # None /\ now - memCacheTime < CACHE_TTL_SECONDS * 1000

\* what redis.get(REDIS_KEY) yields at the current time: a freshly parsed
\* array, or null when the key is absent or expired
RedisSnapValue ==
    IF redisSnap # None /\ clock < redisSnap[1].exp
    THEN Some(redisSnap[1].val) ELSE None

\* the test of creator-cache.ts:119 on the value read
RedisSnapUsable(cached) == cached # None /\ Len(cached[1]) > 0

\* ------------------------------------------------------------------------
\* Requests
\* ------------------------------------------------------------------------
NoFilters == [category |-> None, region |-> None, language |-> None,
              gender |-> None]

IdleReq ==
    [pc |-> "idle", op |-> "none", cid |-> 0, filters |-> NoFilters,
     now |-> 0, snap |-> None, src |-> "none", snapRead |-> FALSE,
     fsQuery |-> FALSE, idxRead |-> FALSE, rdFail |-> FALSE,
     fsFail |-> FALSE, built |-> 0,
     restored |-> 0, filteredN |-> 0, reused |-> FALSE, idx |-> None,
     status |-> "pending"]

NewReq(op, filters) ==
    [IdleReq EXCEPT !.op = op, !.cid = calls + 1, !.filters = filters,
                    !.now = clock]

\* getCachedCreators returns s to its caller: a direct call is complete, a
\* search resumes after its await
Returned(r, s, src) ==
    [r EXCEPT !.snap = Some(s), !.src = src,
              !.pc = IF r.op = "get" THEN "done" ELSE "afterSnap",
              !.status = IF r.op = "get" THEN "ok" ELSE "pending"]

Free(p) == req[p].pc \in {"idle", "done"}

\* tasks are anonymous: a new request takes the first free task
FirstFree(p) == Free(p) /\ \A q \in 1..(p - 1) : ~Free(q)

\* the Distributed Cache fails a bounded number of kinds of operation
CanFail == Cardinality(failed) < MaxFailures

storeVars == <<store, updates>>
memVars == <<memCache, memCacheTime>>
idxVars == <<cachedIndex, cachedCreatorRef>>
redisVars == <<redisSnap, redisIdx>>
logVars == <<failed, logged>>
lruVars == <<filteredCache, lastF, useOrder, evict>>
\* the state of the routes of routes/search.ts
simVars == <<sim, writes, simCalls, simLog>>
searchVars == <<search, searchCalls>>
\* the state of the other routes and of the calls of pure functions
filterVars == <<filterRun>>
listVars == <<listing, listCalls>>
waitVars == <<waitlist, signup, signupCalls>>
restVars == <<filterVars, listVars, waitVars>>
routeVars == <<docs, simVars, searchVars, restVars>>
\* the state of the CreatorCache and KeywordIndex services
serviceVars == <<clock, redis, storeVars, memVars, idxVars, redisVars,
                 inflight, nextRef, nextIid, calls, req, hist, lruVars,
                 logVars, invalidated>>

\* creator-cache.ts:108-127, the synchronous part of getCachedCreators up to
\* its first await, for the new request r of task p
EnterGetCachedCreators(p, r) ==
    /\ calls' = calls + 1
    /\ IF MemCacheValid(clock)
       THEN /\ req' = [req EXCEPT ![p] = Returned(r, memCache[1], "mem")]
            /\ hist' = hist \cup {[ref |-> memCache[1].ref, ts |-> memCacheTime]}
       ELSE /\ req' = [req EXCEPT ![p] =
                         [r EXCEPT !.pc = IF redis THEN "redisGet" ELSE "fsLoad",
                                   !.snapRead = redis, !.fsQuery = ~redis]]
            /\ hist' = hist
    /\ UNCHANGED <<invalidated, routeVars>>
    /\ UNCHANGED <<clock, redis, storeVars, memVars, idxVars, redisVars,
                   inflight, nextRef, nextIid, lruVars, logVars>>

\* a direct call of getCachedCreators; maxCalls bounds the calls of a behaviour
StartGet(p, maxCalls) ==
    /\ calls < maxCalls
    /\ FirstFree(p)
    /\ EnterGetCachedCreators(p, NewReq("get", NoFilters))

\* keywordSearchCached(query, limit, filters) up to its first await
StartSearch(p, filters, maxCalls) ==
    /\ calls < maxCalls
    /\ FirstFree(p)
    /\ EnterGetCachedCreators(p, NewReq("search", filters))

\* Install that leaves the timestamp of the entry alone
Install_keepsTime(p, creators) ==
    /\ memCache' = Some(creators)
    /\ memCacheTime' = memCacheTime

\* install creators as the in-process entry, timestamped with the now the
\* call read when it started
Install(p, creators) ==
    /\ memCache' = Some(creators)
    /\ memCacheTime' = req[p].now

\* creator-cache.ts:118-123: redis.get answered (readAt is history: the time
\* at which the records of a collection were read from the Document Store)
RedisGetSnapOk(p) ==
    /\ req[p].pc = "redisGet"
    /\ LET cached == RedisSnapValue
           coll == [ref |-> nextRef, data |-> cached[1],
                    readAt |-> redisSnap[1].readAt]
       IN  IF RedisSnapUsable(cached)
           THEN /\ Install(p, coll)
                /\ nextRef' = nextRef + 1
                /\ req' = [req EXCEPT ![p] = Returned(req[p], coll, "redis")]
                /\ hist' = hist \cup {[ref |-> coll.ref, ts |-> req[p].now]}
           ELSE /\ req' = [req EXCEPT ![p].pc = "fsLoad", ![p].fsQuery = TRUE]
                /\ UNCHANGED <<memVars, nextRef, hist>>
    /\ UNCHANGED <<invalidated, routeVars>>
    /\ UNCHANGED <<clock, redis, storeVars, idxVars, redisVars, inflight,
                   nextIid, calls, lruVars, logVars>>

\* RedisGetSnapFail without the try/catch: the rejection fails the call
RedisGetSnapFail_throws(p) ==
    /\ req[p].pc = "redisGet"
    /\ CanFail
    /\ req' = [req EXCEPT ![p].pc = "done", ![p].status = "failed",
                          ![p].rdFail = TRUE]
    /\ failed' = failed \cup {"snapRead"}
    /\ logged' = logged \cup {"snapRead"}
    /\ UNCHANGED <<invalidated, routeVars>>
    /\ UNCHANGED <<clock, redis, storeVars, memVars, idxVars, redisVars,
                   inflight, nextRef, nextIid, calls, hist, lruVars>>

\* creator-cache.ts:124-126: redis.get rejected, caught and logged
RedisGetSnapFail(p) ==
    /\ req[p].pc = "redisGet"
    /\ CanFail
    /\ req' = [req EXCEPT ![p].pc = "fsLoad", ![p].fsQuery = TRUE,
                          ![p].rdFail = TRUE]
    /\ failed' = failed \cup {"snapRead"}
    /\ logged' = logged \cup {"snapRead"}
    /\ UNCHANGED <<invalidated, routeVars>>
    /\ UNCHANGED <<clock, redis, storeVars, memVars, idxVars, redisVars,
                   inflight, nextRef, nextIid, calls, hist, lruVars>>

\* creator-cache.ts:135-139: the write-through is issued and not awaited
WriteThrough(p, creators) ==
    IF redis
    THEN inflight' = inflight \cup
             {[kind |-> "setSnap", val |-> creators.data, from |-> req[p].cid,
               readAt |-> creators.readAt]}
    ELSE inflight' = inflight

\* FsLoadOk that awaits the write-through before it returns
FsLoadOk_awaitsWrite(p) ==
    /\ req[p].pc = "fsLoad"
    /\ LET creators == [ref |-> nextRef, data |-> loadFromFirestore,
                        readAt |-> clock]
       IN  /\ Install(p, creators)
           /\ WriteThrough(p, creators)
           /\ nextRef' = nextRef + 1
           /\ req' = [req EXCEPT ![p].pc = IF redis THEN "awaitWrite"
                                           ELSE Returned(req[p], creators, "store").pc,
                                 ![p].snap = Some(creators), ![p].src = "store",
                                 ![p].status = IF redis THEN "pending"
                                               ELSE Returned(req[p], creators, "store").status]
           /\ hist' = hist \cup {[ref |-> creators.ref, ts |-> req[p].now]}
    /\ UNCHANGED <<invalidated, routeVars>>
    /\ UNCHANGED <<clock, redis, storeVars, idxVars, redisVars, nextIid,
                   calls, lruVars, logVars>>

\* creator-cache.ts:130-141: the Firestore query answered
FsLoadOk(p) ==
    /\ req[p].pc = "fsLoad"
    /\ LET creators == [ref |-> nextRef, data |-> loadFromFirestore,
                        readAt |-> clock]
       IN  /\ Install(p, creators)
           /\ WriteThrough(p, creators)
           /\ nextRef' = nextRef + 1
           /\ req' = [req EXCEPT ![p] = Returned(req[p], creators, "store")]
           /\ hist' = hist \cup {[ref |-> creators.ref, ts |-> req[p].now]}
    /\ UNCHANGED <<invalidated, routeVars>>
    /\ UNCHANGED <<clock, redis, storeVars, idxVars, redisVars, nextIid,
                   calls, lruVars, logVars>>

\* creator-cache.ts:130: the Firestore query rejected; nothing catches it
FsLoadFail(p) ==
    /\ req[p].pc = "fsLoad"
    /\ req' = [req EXCEPT ![p].pc = "done", ![p].status = "failed",
                          ![p].fsFail = TRUE]
    /\ UNCHANGED <<invalidated, routeVars>>
    /\ UNCHANGED <<clock, redis, storeVars, memVars, idxVars, redisVars,
                   inflight, nextRef, nextIid, calls, hist, lruVars,
                   logVars>>

\* creator-cache.ts:178-184
invalidateCache(maxCalls) ==
    /\ calls < maxCalls
    /\ memCache' = None
    /\ memCacheTime' = 0
    /\ inflight' = IF redis
                   THEN inflight \cup
                          {[kind |-> "del", val |-> <<>>, from |-> calls + 1]}
                   ELSE inflight
    /\ calls' = calls + 1
    /\ hist' = {}
    /\ invalidated' = calls + 1
    /\ UNCHANGED routeVars
    /\ UNCHANGED <<clock, redis, storeVars, idxVars, redisVars, nextRef,
                   nextIid, req, lruVars, logVars>>


\* ------------------------------------------------------------------------
\* keyword-search.ts
\* ------------------------------------------------------------------------
OrEmpty(v) == IF v = None THEN "" ELSE v[1]

makeFilterKey(filters) ==
    OrEmpty(filters.category) \o "|" \o OrEmpty(filters.region) \o "|"
      \o OrEmpty(filters.language) \o "|" \o OrEmpty(filters.gender)

hasFilters(filters) ==
    \/ Truthy(filters.category)
    \/ Truthy(filters.region)
    \/ Truthy(filters.language)
    \/ Truthy(filters.gender)

\* the Map filteredCache as the sequence of its entries in insertion order
MapHas(m, key) == \E i \in 1..Len(m) : m[i].key = key

MapGet(m, key) == m[CHOOSE i \in 1..Len(m) : m[i].key = key]

MapDelete(m, key) == SelectIdx(m, {i \in 1..Len(m) : m[i].key # key}, 1)

\* Map.prototype.set: a key already present keeps its position
MapSet(m, key, e) ==
    IF MapHas(m, key)
    THEN [i \in 1..Len(m) |-> IF m[i].key = key THEN e ELSE m[i]]
    ELSE Append(m, e)

MapKeys(m) == [i \in 1..Len(m) |-> m[i].key]

\* evictFilteredLRU with the size test off by one
evictFilteredLRU_late(m) ==
    IF Len(m) <= FILTERED_MAX_ENTRIES + 1 THEN m
    ELSE SubSeq(m, Len(m) - FILTERED_MAX_ENTRIES + 1, Len(m))

evictFilteredLRU(m) ==
    IF Len(m) <= FILTERED_MAX_ENTRIES THEN m
    ELSE SubSeq(m, Len(m) - FILTERED_MAX_ENTRIES + 1, Len(m))

\* FilteredHit without the comparison of the snapshot references
FilteredHit_anyRef(m, key, creators, now) ==
    /\ MapHas(m, key)
    /\ now - MapGet(m, key).timestamp < FILTERED_TTL_MS

\* FilteredHit of a search that never looks into the cache
FilteredHit_never(m, key, creators, now) == FALSE

\* the test of keyword-search.ts:188-192 on the entry found for the key
FilteredHit(m, key, creators, now) ==
    /\ MapHas(m, key)
    /\ MapGet(m, key).creatorRef = creators.ref
    /\ now - MapGet(m, key).timestamp < FILTERED_TTL_MS

\* FullIndexFresh without the comparison of the references
FullIndexFresh_anyRef(creators) == cachedIndex # None

\* the test of keyword-search.ts:142
FullIndexFresh(creators) ==
    cachedIndex # None /\ cachedCreatorRef = Some(creators.ref)

Without(s, x) == SelectIdx(s, {i \in 1..Len(s) : s[i] # x}, 1)

\* the record of the search of key kept in lastF
Used(key, iid, ref) ==
    {l \in lastF : l.key # key}
       \cup {[key |-> key, t |-> clock, iid |-> iid, ref |-> ref]}

\* keyword-search.ts:183-224: the filtered branch, run without an await
FilteredSearch(p) ==
    LET r == req[p]
        allCreators == r.snap[1]
        filterKey == makeFilterKey(r.filters)
        now == clock
    IN  IF FilteredHit(filteredCache, filterKey, allCreators, now)
        THEN LET cached == MapGet(filteredCache, filterKey)
             IN  /\ filteredCache' =
                        Append(MapDelete(filteredCache, filterKey), cached)
                 /\ req' = [req EXCEPT ![p].pc = "done", ![p].status = "ok",
                                       ![p].reused = TRUE,
                                       ![p].idx = Some(cached.index)]
                 /\ useOrder' = Append(Without(useOrder, filterKey), filterKey)
                 /\ lastF' = Used(filterKey, cached.index.iid, allCreators.ref)
                 /\ UNCHANGED <<nextRef, nextIid, evict>>
        ELSE LET filtered == [ref |-> nextRef,
                              data |-> filterCreators(allCreators.data, r.filters)]
                 index == [iid |-> nextIid, docs |-> filtered,
                           recs |-> filtered.data]
                 entry == [key |-> filterKey, index |-> index,
                           creatorRef |-> allCreators.ref, timestamp |-> now]
                 inserted == MapSet(filteredCache, filterKey, entry)
                 kept == evictFilteredLRU(inserted)
                 gone == Range(MapKeys(inserted)) \ Range(MapKeys(kept))
             IN  /\ filteredCache' = kept
                 /\ nextRef' = nextRef + 1
                 /\ nextIid' = nextIid + 1
                 /\ req' = [req EXCEPT ![p].pc = "done", ![p].status = "ok",
                                       ![p].built = 1, ![p].filteredN = 1,
                                       ![p].idx = Some(index)]
                 /\ useOrder' =
                      LET u == Append(Without(useOrder, filterKey), filterKey)
                      IN  SelectIdx(u, {i \in 1..Len(u) : u[i] \notin gone}, 1)
                 /\ lastF' = Used(filterKey, index.iid, allCreators.ref)
                 /\ evict' = IF gone = {} THEN evict
                             ELSE Some([victims |-> gone,
                                        lru |-> Head(Without(useOrder, filterKey)),
                                        sizeBefore |-> Len(filteredCache),
                                        sizeAfter |-> Len(kept),
                                        inserted |-> filterKey])

\* keyword-search.ts:142-147: getOrBuildFullIndex up to its await
FullIndexLookup(p) ==
    LET creators == req[p].snap[1]
    IN  /\ IF FullIndexFresh(creators)
           THEN req' = [req EXCEPT ![p].pc = "done", ![p].status = "ok",
                                   ![p].reused = TRUE, ![p].idx = cachedIndex]
           ELSE req' = [req EXCEPT ![p].pc = "idxRestore",
                                   ![p].idxRead = redis]
        /\ UNCHANGED <<nextRef, nextIid, lruVars>>

\* keywordSearchCached resumes after await getCachedCreators()
SearchContinue(p) ==
    /\ req[p].pc = "afterSnap"
    /\ IF hasFilters(req[p].filters) THEN FilteredSearch(p)
       ELSE FullIndexLookup(p)
    /\ UNCHANGED <<invalidated, routeVars>>
    /\ UNCHANGED <<clock, redis, storeVars, memVars, idxVars, redisVars,
                   inflight, calls, hist, logVars>>

\* what redis.get(REDIS_INDEX_KEY) yields at the current time
RedisIdxValue ==
    IF redis /\ redisIdx # None /\ clock < redisIdx[1].exp
    THEN Some(redisIdx[1].val) ELSE None

\* StoreFullIndex recording the collection the in-process entry holds now
StoreFullIndex_current(p, index) ==
    /\ cachedIndex' = Some(index)
    /\ cachedCreatorRef' = IF memCache = None THEN None
                           ELSE Some(memCache[1].ref)

\* cachedIndex and cachedCreatorRef are assigned together
StoreFullIndex(p, index) ==
    /\ cachedIndex' = Some(index)
    /\ cachedCreatorRef' = Some(req[p].snap[1].ref)

\* keyword-search.ts:119-132: the write is issued and not awaited
persistIndexToRedis(p, index) ==
    IF redis
    THEN inflight' = inflight \cup
             {[kind |-> "setIdx", val |-> index.recs, from |-> req[p].cid]}
    ELSE inflight' = inflight

\* keyword-search.ts:155-159; readFailed: the index read before was rejected
BuildFullIndex(p, readFailed) ==
    LET creators == req[p].snap[1]
        index == [iid |-> nextIid, docs |-> creators, recs |-> creators.data]
    IN  /\ StoreFullIndex(p, index)
        /\ persistIndexToRedis(p, index)
        /\ nextIid' = nextIid + 1
        /\ req' = [req EXCEPT ![p].pc = "done", ![p].status = "ok",
                              ![p].built = 1, ![p].idx = Some(index),
                              ![p].rdFail = readFailed]

\* keyword-search.ts:98-109 and 147-159: restoreIndexFromRedis answered
\* (null without reading when no Distributed Cache is configured)
IdxRestoreOk(p) ==
    /\ req[p].pc = "idxRestore"
    /\ LET raw == RedisIdxValue
           creators == req[p].snap[1]
           restored == [iid |-> nextIid, docs |-> creators, recs |-> raw[1]]
       IN  IF raw # None
           THEN /\ StoreFullIndex(p, restored)
                /\ nextIid' = nextIid + 1
                /\ req' = [req EXCEPT ![p].pc = "done", ![p].status = "ok",
                                      ![p].restored = 1,
                                      ![p].idx = Some(restored)]
                /\ UNCHANGED inflight
           ELSE BuildFullIndex(p, req[p].rdFail)
    /\ UNCHANGED <<invalidated, routeVars>>
    /\ UNCHANGED <<clock, redis, storeVars, memVars, redisVars, nextRef,
                   calls, hist, lruVars, logVars>>

\* keyword-search.ts:110-113: redis.get rejected, caught and logged; the
\* index is then built from scratch
IdxRestoreFail(p) ==
    /\ req[p].pc = "idxRestore"
    /\ redis
    /\ CanFail
    /\ BuildFullIndex(p, TRUE)
    /\ failed' = failed \cup {"idxRead"}
    /\ logged' = logged \cup {"idxRead"}
    /\ UNCHANGED <<invalidated, routeVars>>
    /\ UNCHANGED <<clock, redis, storeVars, memVars, redisVars, nextRef,
                   calls, hist, lruVars>>

\* ------------------------------------------------------------------------
\* The environment: time, the Distributed Cache, the Document Store
\* ------------------------------------------------------------------------
\* time passes, at most maxTicks times
Tick(maxTicks) ==
    /\ clock < maxTicks * TickMs
    /\ clock' = clock + TickMs
    /\ UNCHANGED <<invalidated, routeVars>>
    /\ UNCHANGED <<redis, storeVars, memVars, idxVars, redisVars, inflight,
                   nextRef, nextIid, calls, req, hist, lruVars, logVars>>

\* the Distributed Cache applies a write or delete: set ... { ex: ttl }
RedisApply ==
    \E m \in inflight :
      /\ inflight' = inflight \ {m}
      /\ redisSnap' =
           IF m.kind = "setSnap"
           THEN Some([val |-> m.val, exp |-> clock + CACHE_TTL_SECONDS * 1000,
                      readAt |-> m.readAt])
           ELSE IF m.kind = "del" THEN None ELSE redisSnap
      /\ redisIdx' =
           IF m.kind = "setIdx"
           THEN Some([val |-> m.val, exp |-> clock + REDIS_INDEX_TTL * 1000])
           ELSE redisIdx
      /\ UNCHANGED <<invalidated, routeVars>>
      /\ UNCHANGED <<clock, redis, storeVars, memVars, idxVars, nextRef,
                     nextIid, calls, req, hist, lruVars, logVars>>

\* the write or delete is rejected: the .catch handlers of
\* creator-cache.ts:138, keyword-search.ts:126 (console.warn) and
\* creator-cache.ts:182 (empty)
RedisReject ==
    \E m \in inflight :
      /\ CanFail
      /\ inflight' = inflight \ {m}
      /\ failed' = failed \cup {m.kind}
      /\ logged' = IF m.kind = "del" THEN logged ELSE logged \cup {m.kind}
      /\ UNCHANGED <<invalidated, routeVars>>
      /\ UNCHANGED <<clock, redis, storeVars, memVars, idxVars, redisVars,
                     nextRef, nextIid, calls, req, hist, lruVars>>

\* an external write publishes or unpublishes a creator document
StoreUpdate(i) ==
    /\ updates < MaxUpdates
    /\ updates' = updates + 1
    /\ store' = [store EXCEPT ![i] = ~store[i]]
    /\ UNCHANGED <<invalidated, routeVars>>
    /\ UNCHANGED <<clock, redis, memVars, idxVars, redisVars, inflight,
                   nextRef, nextIid, calls, req, hist, lruVars, logVars>>

\* ------------------------------------------------------------------------
\* routes/search.ts (src/unnamed/part_002): GET /similar
\* The creators collection as the routes read it: documents 1..7 exist,
\* document 8 does not.  Names, slugs, categories and embeddings are fixed;
\* the publication flag and the similarity-cache field change.
\* ------------------------------------------------------------------------
SimProcs == {1}
DocIds == 1..7
UnknownId == 8
SimSources == {1, 4, 7, UnknownId}
SimLimits == {1, 2}

\* scores and distances are numbers in hundredths: Unit is 1.0
Unit == 100

DocName(i) == "n" \o ToString(i)
DocSlug(i) == "s" \o ToString(i)

\* the embedding field: documents 2..6 carry a vector, document 1 has no
\* such field, document 7 has an empty array
DocEmbedding(i) ==
    IF i \in 2..6 THEN Some(<<i>>) ELSE IF i = 7 THEN Some(<<>>) ELSE None

\* the categories field; document 7 has none
SimCategories(i) ==
    CASE i = 1 -> Some(<<"x", "y">>)
      [] i = 4 -> Some(<<"y", "x">>)
      [] i = 5 -> Some(<<"y">>)
      [] i = 7 -> None
      [] OTHER -> Some(<<"x">>)

\* the fields region, languages and gender; documents 6 and 7 have no region
SimRegion(i) ==
    IF i <= 3 THEN Some("eu") ELSE IF i <= 5 THEN Some("na") ELSE None
SimLanguages(i) == IF i % 2 = 1 THEN <<"en">> ELSE <<"en", "ar">>
SimGender(i) == IF i \in {2, 3, 5} THEN Some("f") ELSE Some("m")

\* cosine distance between the embeddings of two documents
Dist(a, b) == IF a > b THEN a * a - b * b ELSE b * b - a * a

\* a record with the one field name when v is present, with no field otherwise
Opt(name, v) == IF v = None THEN <<>> ELSE (name :> v[1])

Omit(data, name) == [f \in DOMAIN data \ {name} |-> data[f]]

\* array.slice(0, n)
Slice(s, n) == SubSeq(s, 1, IF n < Len(s) THEN n ELSE Len(s))

\* array.map(e => e.id)
Ids(s) == [n \in 1..Len(s) |-> s[n].id]

\* doc.data() of document i
DocData(i) ==
    [name |-> DocName(i), slug |-> DocSlug(i),
     is_published |-> docs[i].is_published,
     languages |-> SimLanguages(i)]
      @@ Opt("categories", SimCategories(i))
      @@ Opt("region", SimRegion(i))
      @@ Opt("gender", SimGender(i))
      @@ Opt("embedding", DocEmbedding(i))
      @@ Opt("precomputed_similar", docs[i].precomputed_similar)
      @@ Opt("precomputed_similar_at", docs[i].precomputed_similar_at)

\* stripEmbedding that returns the data as they are
stripEmbedding_identity(data) == data

\* part_002:20-26
stripEmbedding(data) == Omit(data, "embedding")

\* part_002:32-39: the vector, or null
extractVector(data) ==
    IF "embedding" \in DOMAIN data THEN Some(data.embedding) ELSE None

RECURSIVE NearestFirst(_, _)
\* the documents of S ordered by their distance to document src
NearestFirst(src, S) ==
    IF S = {} THEN <<>>
    ELSE LET m == CHOOSE i \in S : \A j \in S : Dist(src, i) <= Dist(src, j)
         IN  <<m>> \o NearestFirst(src, S \ {m})

\* the answer of findNearest({ queryVector: embedding of src, limit: k,
\* distanceResultField }).get(): the k nearest documents that carry a
\* vector, nearest first, the source itself included, published or not
findNearest(src, k, withDistance) ==
    LET ids == Slice(NearestFirst(src, {i \in DocIds :
                        DocEmbedding(i) # None /\ Len(DocEmbedding(i)[1]) > 0}), k)
    IN  [n \in 1..Len(ids) |->
           [id |-> ids[n],
            data |-> DocData(ids[n])
                       @@ Opt("_distance", IF withDistance
                                           THEN Some(Dist(src, ids[n]))
                                           ELSE None)]]

\* categoryQuery without the clause on is_published
categoryQuery_unpublished(key, k) ==
    LET ids == Slice(SeqOfIds({i \in DocIds :
                        /\ SimCategories(i) # None
                        /\ Includes(SimCategories(i)[1], key)}, 1), k)
    IN  [n \in 1..Len(ids) |-> [id |-> ids[n], data |-> DocData(ids[n])]]

\* the answer of .where('is_published', '==', true)
\* .where('categories', 'array-contains', key).limit(k).get(), in id order
categoryQuery(key, k) ==
    LET ids == Slice(SeqOfIds({i \in DocIds :
                        /\ docs[i].is_published
                        /\ SimCategories(i) # None
                        /\ Includes(SimCategories(i)[1], key)}, 1), k)
    IN  [n \in 1..Len(ids) |-> [id |-> ids[n], data |-> DocData(ids[n])]]

\* a similarity request: position, parameters, the queries it issued, the
\* answer of its last query and its response
IdleSim ==
    [pc |-> "idle", cid |-> 0, creatorId |-> 0, limit |-> 0, source |-> None,
     knn |-> 0, knnLimit |-> 0, cat |-> 0, catLimit |-> 0, wb |-> 0,
     answer |-> None, status |-> 0, body |-> None]

SimFree(p) == sim[p].pc \in {"idle", "done"}

\* c.json(body, status)
Respond(r, status, body) ==
    [r EXCEPT !.pc = "done", !.status = status, !.body = Some(body)]

\* NotFound that answers an unknown creator like one without categories
NotFound_empty(r) == Respond(r, 200, [results |-> <<>>, fallback |-> TRUE])

\* part_002:235-237
NotFound(r) == Respond(r, 404, [error |-> "Creator not found"])

IsNonEmptyArray(data, field) ==
    field \in DOMAIN data /\ Len(data[field]) > 0

\* hasPrecomputed that lets the field expire one snapshot TTL after its
\* computed-at timestamp
hasPrecomputed_fresh(data) ==
    /\ IsNonEmptyArray(data, "precomputed_similar")
    /\ "precomputed_similar_at" \in DOMAIN data
    /\ clock - data.precomputed_similar_at < CACHE_TTL_MS

\* part_002:242-247: the test of the precomputed stage
hasPrecomputed(data) == IsNonEmptyArray(data, "precomputed_similar")

\* the initial similarity-cache field of document 4: three entries that are
\* not in order of score, one of them an unpublished creator
StoredSimilar ==
    <<[id |-> 3, score |-> 40, slug |-> DocSlug(3), name |-> DocName(3)],
      [id |-> 6, score |-> 80, slug |-> DocSlug(6), name |-> DocName(6)],
      [id |-> 2, score |-> 60, slug |-> DocSlug(2), name |-> DocName(2)]>>

\* precomputedBody without the slice
precomputedBody_untruncated(precomputed, limit) ==
    [results |-> [n \in 1..Len(precomputed) |->
                    [id |-> precomputed[n].id,
                     similarity |-> precomputed[n].score,
                     slug |-> precomputed[n].slug,
                     name |-> precomputed[n].name, precomputed |-> TRUE]],
     fallback |-> FALSE, precomputed |-> TRUE]

\* part_002:248-260: the response of the precomputed stage
precomputedBody(precomputed, limit) ==
    LET first == Slice(precomputed, limit)
    IN  [results |-> [n \in 1..Len(first) |->
                        [id |-> first[n].id, similarity |-> first[n].score,
                         slug |-> first[n].slug, name |-> first[n].name,
                         precomputed |-> TRUE]],
         fallback |-> FALSE, precomputed |-> TRUE]

\* knnKept that keeps the source document
knnKept_withSource(answer, creatorId) ==
    SelectIdx(answer, {n \in 1..Len(answer) :
                         answer[n].data.is_published = TRUE}, 1)

\* part_002:280-284: the filter of the live-KNN stage
knnKept(answer, creatorId) ==
    SelectIdx(answer, {n \in 1..Len(answer) :
                         /\ answer[n].id # creatorId
                         /\ answer[n].data.is_published = TRUE}, 1)

\* part_002:286-296: the map of the live-KNN stage
knnEntry(doc) ==
    LET distance == IF "_distance" \in DOMAIN doc.data
                    THEN Some(doc.data._distance) ELSE None
        creator == Omit(stripEmbedding(doc.data), "_distance")
    IN  ("similarity" :> (IF distance # None THEN Unit - distance[1] ELSE 0))
          @@ Opt("distance", distance) @@ creator @@ ("id" :> doc.id)

\* part_002:279-297: filter, slice and map of the live-KNN stage
knnSimilar(answer, creatorId, limit) ==
    LET first == Slice(knnKept(answer, creatorId), limit)
    IN  [n \in 1..Len(first) |-> knnEntry(first[n])]

\* part_002:301-306
precomputedData(similar) ==
    [n \in 1..Len(similar) |->
       [id |-> similar[n].id, score |-> similar[n].similarity,
        slug |-> similar[n].slug, name |-> similar[n].name]]

\* part_002:333-344: filter, slice and map of the category stage
categorySimilar(answer, creatorId, limit) ==
    LET kept == SelectIdx(answer, {n \in 1..Len(answer) :
                            answer[n].id # creatorId}, 1)
        first == Slice(kept, limit)
    IN  [n \in 1..Len(first) |->
           [id |-> first[n].id, name |-> first[n].data.name,
            slug |-> first[n].data.slug, similarity |-> 0]]

\* part_002:217-234: GET /similar with valid parameters, up to the await of
\* the read of the source document
SimilarStart(p, creatorId, limit, maxCalls) ==
    /\ simCalls < maxCalls
    /\ SimFree(p)
    /\ simCalls' = simCalls + 1
    /\ sim' = [sim EXCEPT ![p] =
                 [IdleSim EXCEPT !.pc = "docGet", !.cid = simCalls + 1,
                                 !.creatorId = creatorId, !.limit = limit]]
    /\ UNCHANGED <<serviceVars, restVars, searchVars, docs, writes, simLog>>

\* part_002:235-331: the source document is read; the request answers from
\* the precomputed field, or issues the one query of its stage
SimilarDocGet(p) ==
    /\ sim[p].pc = "docGet"
    /\ LET r == sim[p]
           creatorId == r.creatorId
       IN  IF creatorId \notin DocIds
           THEN sim' = [sim EXCEPT ![p] = NotFound(r)]
           ELSE
             LET creatorData == DocData(creatorId)
                 r1 == [r EXCEPT !.source = Some(creatorData)]
                 queryVector == extractVector(creatorData)
             IN  IF hasPrecomputed(creatorData)
                 THEN sim' = [sim EXCEPT ![p] =
                                Respond(r1, 200, precomputedBody(
                                  creatorData.precomputed_similar, r.limit))]
                 ELSE IF queryVector # None /\ Len(queryVector[1]) > 0
                 THEN sim' = [sim EXCEPT ![p] =
                                [r1 EXCEPT !.pc = "knn", !.knn = r.knn + 1,
                                           !.knnLimit = (r.limit + 1) * 2]]
                 ELSE IF ~IsNonEmptyArray(creatorData, "categories")
                 THEN sim' = [sim EXCEPT ![p] =
                                Respond(r1, 200, [results |-> <<>>,
                                                  fallback |-> TRUE])]
                 ELSE sim' = [sim EXCEPT ![p] =
                                [r1 EXCEPT !.pc = "cat", !.cat = r.cat + 1,
                                           !.catLimit = r.limit + 1]]
    /\ UNCHANGED <<serviceVars, restVars, searchVars, docs, writes, simCalls, simLog>>

\* SimilarKnn that goes on to the category query instead of responding
SimilarKnn_fallsThrough(p, withDistance) ==
    /\ sim[p].pc = "knn"
    /\ sim' = [sim EXCEPT ![p].pc = "cat", ![p].cat = sim[p].cat + 1,
                          ![p].catLimit = sim[p].limit + 1]
    /\ UNCHANGED <<serviceVars, restVars, searchVars, docs, writes, simCalls, simLog>>

\* part_002:279-317: the KNN query answered; the write-back is issued and
\* not awaited, the response is sent
SimilarKnn(p, withDistance) ==
    /\ sim[p].pc = "knn"
    /\ LET r == sim[p]
           answer == findNearest(r.creatorId, r.knnLimit, withDistance)
           similar == knnSimilar(answer, r.creatorId, r.limit)
           issue == Len(similar) > 0
       IN  /\ writes' = IF issue
                        THEN writes \cup {[doc |-> r.creatorId,
                                           val |-> precomputedData(similar),
                                           at |-> clock, from |-> r.cid]}
                        ELSE writes
           /\ sim' = [sim EXCEPT ![p] =
                        Respond([r EXCEPT !.answer = Some(answer),
                                          !.wb = IF issue THEN r.wb + 1
                                                          ELSE r.wb],
                                200, [results |-> similar,
                                      fallback |-> FALSE])]
    /\ UNCHANGED <<serviceVars, restVars, searchVars, docs, simCalls, simLog>>

\* part_002:333-350: the category query answered
SimilarCategory(p) ==
    /\ sim[p].pc = "cat"
    /\ LET r == sim[p]
           answer == categoryQuery(r.source[1].categories[1], r.catLimit)
       IN  sim' = [sim EXCEPT ![p] =
                     Respond([r EXCEPT !.answer = Some(answer)], 200,
                             [results |-> categorySimilar(answer, r.creatorId,
                                                          r.limit),
                              fallback |-> TRUE])]
    /\ UNCHANGED <<serviceVars, restVars, searchVars, docs, writes, simCalls, simLog>>

\* a read of the Document Store is rejected: the handler throws and the
\* error handler of the application answers 500
SimilarReadFail(p) ==
    /\ sim[p].pc \in {"docGet", "knn", "cat"}
    /\ sim' = [sim EXCEPT ![p] =
                 Respond(sim[p], 500, [error |-> "Internal Server Error"])]
    /\ UNCHANGED <<serviceVars, restVars, searchVars, docs, writes, simCalls, simLog>>

\* the Document Store applies a write-back: update({ precomputed_similar,
\* precomputed_similar_at })
WriteBackApply ==
    \E w \in writes :
      /\ writes' = writes \ {w}
      /\ docs' = [docs EXCEPT ![w.doc].precomputed_similar = Some(w.val),
                              ![w.doc].precomputed_similar_at = Some(w.at)]
      /\ UNCHANGED <<serviceVars, restVars, searchVars, sim, simCalls, simLog>>

\* WriteBackReject whose rejection reaches the request that issued it
WriteBackReject_surfaces ==
    \E w \in writes :
      /\ writes' = writes \ {w}
      /\ simLog' = simLog \cup {w.from}
      /\ sim' = [p \in SimProcs |->
                   IF sim[p].cid = w.from
                   THEN Respond(sim[p], 500, [error |-> "Internal Server Error"])
                   ELSE sim[p]]
      /\ UNCHANGED <<serviceVars, restVars, searchVars, docs, simCalls>>

\* part_002:310: the write-back is rejected; the .catch handler logs it
WriteBackReject ==
    \E w \in writes :
      /\ writes' = writes \ {w}
      /\ simLog' = simLog \cup {w.from}
      /\ UNCHANGED <<serviceVars, restVars, searchVars, docs, sim, simCalls>>

\* an external write unpublishes a creator
DocUnpublish(i, maxUnpublished) ==
    /\ docs[i].is_published
    /\ Cardinality({j \in DocIds : ~docs[j].is_published}) < maxUnpublished
    /\ docs' = [docs EXCEPT ![i].is_published = FALSE]
    /\ UNCHANGED <<serviceVars, restVars, searchVars, sim, writes, simCalls, simLog>>

\* the creators collection: every creator but 3 is published, none has a
\* similarity-cache field
InitialDocs ==
    [i \in DocIds |-> [is_published |-> i # 3, precomputed_similar |-> None,
                       precomputed_similar_at |-> None]]

\* ------------------------------------------------------------------------
\* routes/search.ts (src/unnamed/part_002): POST / (hybrid search)
\* ------------------------------------------------------------------------
SearchProcs == {1}
Modes == {"hybrid", "semantic", "keyword"}
SearchLimits == {1, 2}
\* semanticWeight, in hundredths
Weights == {0, 70, Unit}
Queries == {"ab", "cd"}
SearchFilters ==
    {NoFilters,
     [NoFilters EXCEPT !.category = Some("x")],
     [NoFilters EXCEPT !.language = Some("ar")],
     [NoFilters EXCEPT !.category = Some("x"), !.language = Some("ar")],
     [NoFilters EXCEPT !.region = Some("eu"), !.gender = Some("f")]}

\* cosine distance between the embedding of the query and that of document i
QueryDist(query, i) == IF query = "ab" THEN 10 * i ELSE 10 * (8 - i)

\* the Fuse score (0 is a perfect match) of document i for the query, when
\* the document matches within the threshold of 0.4
FuseScore(query, i) ==
    IF query = "ab"
    THEN CASE i = 1 -> Some(10) [] i = 2 -> Some(30) [] i = 4 -> Some(0)
           [] i = 6 -> Some(20) [] OTHER -> None
    ELSE CASE i = 2 -> Some(25) [] i = 3 -> Some(5) [] i = 5 -> Some(35)
           [] i = 7 -> Some(15) [] OTHER -> None

\* entries of a Map kept as a sequence of records with the key in field id
Has(m, id) == \E n \in 1..Len(m) : m[n].id = id
Lookup(m, id) == m[CHOOSE n \in 1..Len(m) : m[n].id = id]

\* the indices of keys in the order of a stable sort by decreasing key
OrderDesc(keys) ==
    [k \in 1..Len(keys) |->
       CHOOSE n \in 1..Len(keys) :
         Cardinality({m \in 1..Len(keys) :
                        \/ keys[m] > keys[n]
                        \/ keys[m] = keys[n] /\ m < n}) = k - 1]

\* the answer of findNearest({ queryVector, limit: k, distanceResultField })
searchNearest(query, k, withDistance) ==
    LET S == {i \in DocIds : DocEmbedding(i) # None /\ Len(DocEmbedding(i)[1]) > 0}
        ids == SeqOfIds(S, 1)
        byDist == OrderDesc([n \in 1..Len(ids) |-> 0 - QueryDist(query, ids[n])])
        first == Slice([n \in 1..Len(ids) |-> ids[byDist[n]]], k)
    IN  [n \in 1..Len(first) |->
           [id |-> first[n],
            data |-> DocData(first[n])
                       @@ Opt("_distance", IF withDistance
                                           THEN Some(QueryDist(query, first[n]))
                                           ELSE None)]]

\* postFilter without the filter on languages
postFilter_noLanguage(data, filters) ==
    /\ data.is_published
    /\ Truthy(filters.category) =>
         "categories" \in DOMAIN data
           /\ Includes(data.categories, filters.category[1])
    /\ Truthy(filters.region) =>
         "region" \in DOMAIN data /\ data.region = filters.region[1]
    /\ Truthy(filters.gender) =>
         "gender" \in DOMAIN data /\ data.gender = filters.gender[1]

\* part_002:80-88: the post-filters of the semantic path
postFilter(data, filters) ==
    /\ data.is_published
    /\ Truthy(filters.category) =>
         "categories" \in DOMAIN data
           /\ Includes(data.categories, filters.category[1])
    /\ Truthy(filters.region) =>
         "region" \in DOMAIN data /\ data.region = filters.region[1]
    /\ Truthy(filters.language) =>
         "languages" \in DOMAIN data
           /\ Includes(data.languages, filters.language[1])
    /\ Truthy(filters.gender) =>
         "gender" \in DOMAIN data /\ data.gender = filters.gender[1]

\* part_002:76-93: semanticResults and semanticDocs, in insertion order
semanticKept(answer, filters) ==
    SelectIdx(answer, {n \in 1..Len(answer) :
                         postFilter(answer[n].data, filters)}, 1)

semanticResults(answer, filters) ==
    LET kept == semanticKept(answer, filters)
    IN  [n \in 1..Len(kept) |->
           [id |-> kept[n].id,
            score |-> IF "_distance" \in DOMAIN kept[n].data
                      THEN Unit - kept[n].data._distance ELSE 0]]

semanticDocs(answer, filters) ==
    LET kept == semanticKept(answer, filters)
    IN  [n \in 1..Len(kept) |->
           [id |-> kept[n].id,
            doc |-> stripEmbedding(kept[n].data) @@ ("id" :> kept[n].id)]]

\* part_002:118-129: the fields the keyword query selects
Selected ==
    {"name", "slug", "categories", "category", "topics", "region",
     "languages", "gender", "is_published", "profile"}

\* part_002:109-146: the creators of the keyword path: the query with its
\* where clauses, select and limit(50), then the post-filter on language
\* that runs when a category filter is set too
keywordCreators(filters) ==
    LET ids == Slice(SeqOfIds({i \in DocIds :
                   /\ docs[i].is_published
                   /\ Truthy(filters.category) =>
                        SimCategories(i) # None
                          /\ Includes(SimCategories(i)[1], filters.category[1])
                   /\ Truthy(filters.region) => SimRegion(i) = filters.region
                   /\ Truthy(filters.gender) => SimGender(i) = filters.gender},
                 1), 50)
        creators == [n \in 1..Len(ids) |->
                       [f \in DOMAIN DocData(ids[n]) \cap Selected |->
                          DocData(ids[n])[f]] @@ ("id" :> ids[n])]
    IN  IF Truthy(filters.language) /\ Truthy(filters.category)
        THEN SelectIdx(creators, {n \in 1..Len(creators) :
                         Includes(creators[n].languages, filters.language[1])}, 1)
        ELSE creators

\* keyword-search.ts:243-256: the matches of the query, best first, at most
\* limit of them, with score 1 - Fuse score
keywordSearch(creators, query, limit) ==
    LET hits == SelectIdx(creators, {n \in 1..Len(creators) :
                            FuseScore(query, creators[n].id) # None}, 1)
        best == OrderDesc([n \in 1..Len(hits) |->
                             0 - FuseScore(query, hits[n].id)[1]])
        first == Slice([n \in 1..Len(hits) |-> hits[best[n]]], limit)
    IN  [n \in 1..Len(first) |->
           [id |-> first[n].id,
            score |-> Unit - FuseScore(query, first[n].id)[1]]]

\* combinedScore that adds the two scores in hybrid mode
combinedScore_unweighted(mode, w, semanticScore, keywordScore) ==
    IF mode = "semantic" THEN Unit * semanticScore
    ELSE IF mode = "keyword" THEN Unit * keywordScore
    ELSE Unit * semanticScore + Unit * keywordScore

\* part_002:175-182, in units of 1 / (Unit * Unit)
combinedScore(mode, w, semanticScore, keywordScore) ==
    IF mode = "semantic" THEN Unit * semanticScore
    ELSE IF mode = "keyword" THEN Unit * keywordScore
    ELSE w * semanticScore + (Unit - w) * keywordScore

\* attached that prefers the record of the keyword path
attached_keywordFirst(semDocs, allCreatorsMap, id) ==
    IF Has(allCreatorsMap, id) THEN Lookup(allCreatorsMap, id)
    ELSE Lookup(semDocs, id).doc

\* part_002:184: semanticDocs.get(id) || allCreatorsMap.get(id)
attached(semDocs, allCreatorsMap, id) ==
    IF Has(semDocs, id) THEN Lookup(semDocs, id).doc
    ELSE Lookup(allCreatorsMap, id)

\* allIds that takes the identifiers of the semantic path only
allIds_semanticOnly(semResults, keywordResults) == Ids(semResults)

\* part_002:160: the Set of the keys of both maps, in insertion order
allIds(semResults, keywordResults) ==
    Ids(semResults)
      \o Ids(SelectIdx(keywordResults,
                       {n \in 1..Len(keywordResults) :
                          ~Has(semResults, keywordResults[n].id)}, 1))

\* part_002:171-196: the merged list, before sort and slice
mergeAll(r, keywordResults, allCreatorsMap) ==
    LET ids == allIds(r.semanticResults, keywordResults)
        entry(id) ==
          LET semanticScore == IF Has(r.semanticResults, id)
                               THEN Lookup(r.semanticResults, id).score ELSE 0
              keywordScore == IF Has(keywordResults, id)
                              THEN Lookup(keywordResults, id).score ELSE 0
              creator == stripEmbedding(
                           attached(r.semanticDocs, allCreatorsMap, id))
          IN  [id |-> id, name |-> creator.name, slug |-> creator.slug,
               semanticScore |-> semanticScore, keywordScore |-> keywordScore,
               combinedScore |-> combinedScore(r.mode, r.semanticWeight,
                                               semanticScore, keywordScore),
               creator |-> creator]
    IN  [n \in 1..Len(ids) |-> entry(ids[n])]

\* sortAndSlice without the sort
sortAndSlice_unsorted(merged, limit) == Slice(merged, limit)

\* part_002:198-200: merged.sort by decreasing combinedScore, slice(0, limit)
sortAndSlice(merged, limit) ==
    LET o == OrderDesc([n \in 1..Len(merged) |-> merged[n].combinedScore])
    IN  Slice([n \in 1..Len(merged) |-> merged[o[n]]], limit)

\* part_002:160-200: merge, sort and slice
mergeResults(r, keywordResults, allCreatorsMap) ==
    sortAndSlice(mergeAll(r, keywordResults, allCreatorsMap), r.limit)

\* a search request: position, parameters, the calls it made, the maps of
\* the semantic path and its response
IdleSearch ==
    [pc |-> "idle", cid |-> 0, query |-> "", mode |-> "none", limit |-> 0,
     semanticWeight |-> 0, filters |-> NoFilters, embed |-> 0, knn |-> 0,
     knnLimit |-> 0, kw |-> 0, semFailed |-> FALSE, kwFailed |-> FALSE,
     knnAnswer |-> None, semanticResults |-> <<>>, semanticDocs |-> <<>>,
     keywordResults |-> None, allCreatorsMap |-> <<>>, merged |-> <<>>,
     status |-> 0, body |-> None]

SearchFree(p) == search[p].pc \in {"idle", "done"}

\* RunsSemantic that holds in every mode
RunsSemantic_always(mode) == TRUE

\* part_002:57
RunsSemantic(mode) == mode = "semantic" \/ mode = "hybrid"

\* part_002:105
RunsKeyword(mode) == mode = "keyword" \/ mode = "hybrid"

\* part_002:105-131: the keyword path starts when the mode has one
EnterKeyword(r) ==
    [r EXCEPT !.pc = "kwQuery", !.kw = r.kw + 1]

\* part_002:159-210: the response
SearchRespond(r, keywordResults, allCreatorsMap) ==
    LET results == mergeResults(r, keywordResults, allCreatorsMap)
    IN  [r EXCEPT !.pc = "done", !.status = 200,
                  !.allCreatorsMap = allCreatorsMap,
                  !.merged = mergeAll(r, keywordResults, allCreatorsMap),
                  !.body = Some([results |-> results,
                                 meta |-> [query |-> r.query, mode |-> r.mode,
                                           resultCount |-> Len(results)]])]

\* the handler throws: the error handler of the application answers 500
SearchThrow(r) ==
    [r EXCEPT !.pc = "done", !.status = 500,
              !.body = Some([error |-> "Internal Server Error"])]

\* part_002:44-59: POST / with a valid body, up to its first await
SearchStart(p, query, mode, limit, w, filters, maxCalls) ==
    /\ searchCalls < maxCalls
    /\ SearchFree(p)
    /\ searchCalls' = searchCalls + 1
    /\ LET r == [IdleSearch EXCEPT !.cid = searchCalls + 1, !.query = query,
                                   !.mode = mode, !.limit = limit,
                                   !.semanticWeight = w, !.filters = filters]
       IN  search' = [search EXCEPT ![p] =
                        IF RunsSemantic(mode)
                        THEN [r EXCEPT !.pc = "embed", !.embed = 1]
                        ELSE EnterKeyword(r)]
    /\ UNCHANGED <<serviceVars, restVars, docs, simVars>>

\* part_002:59-74: embedQuery answered, the KNN query is issued
EmbedOk(p) ==
    /\ search[p].pc = "embed"
    /\ search' = [search EXCEPT ![p].pc = "knn", ![p].knn = search[p].knn + 1,
                                ![p].knnLimit = search[p].limit * 4]
    /\ UNCHANGED <<serviceVars, restVars, docs, simVars, searchCalls>>

\* SemanticFail that rethrows in every mode
SemanticFail_rethrows(p) ==
    /\ search[p].pc \in {"embed", "knn"}
    /\ search' = [search EXCEPT ![p] =
                    SearchThrow([search[p] EXCEPT !.semFailed = TRUE])]
    /\ UNCHANGED <<serviceVars, restVars, docs, simVars, searchCalls>>

\* part_002:94-98: embedQuery (error or timeout) or the KNN query is
\* rejected; the catch rethrows in semantic mode and falls through in hybrid
SemanticFail(p) ==
    /\ search[p].pc \in {"embed", "knn"}
    /\ LET r == [search[p] EXCEPT !.semFailed = TRUE]
       IN  search' = [search EXCEPT ![p] =
                        IF r.mode = "semantic" THEN SearchThrow(r)
                        ELSE EnterKeyword(r)]
    /\ UNCHANGED <<serviceVars, restVars, docs, simVars, searchCalls>>

\* part_002:76-93: the KNN query answered; in semantic mode the response
\* follows at once, in hybrid mode the keyword path
SearchKnnOk(p, withDistance) ==
    /\ search[p].pc = "knn"
    /\ LET answer == searchNearest(search[p].query, search[p].knnLimit,
                                   withDistance)
           r == [search[p] EXCEPT
                   !.knnAnswer = Some(answer),
                   !.semanticResults = semanticResults(answer, search[p].filters),
                   !.semanticDocs = semanticDocs(answer, search[p].filters)]
       IN  search' = [search EXCEPT ![p] =
                        IF RunsKeyword(r.mode) THEN EnterKeyword(r)
                        ELSE SearchRespond(r, <<>>, <<>>)]
    /\ UNCHANGED <<serviceVars, restVars, docs, simVars, searchCalls>>

\* part_002:131-210: the keyword query answered: keywordSearch, merge,
\* response
KeywordQueryOk(p) ==
    /\ search[p].pc = "kwQuery"
    /\ LET r == search[p]
           creators == keywordCreators(r.filters)
           kwResults == keywordSearch(creators, r.query, r.limit * 2)
       IN  search' = [search EXCEPT ![p] =
                        SearchRespond([r EXCEPT !.keywordResults = Some(kwResults)],
                                      kwResults, creators)]
    /\ UNCHANGED <<serviceVars, restVars, docs, simVars, searchCalls>>

\* part_002:117-131: the keyword query is rejected, outside any try
KeywordQueryFail(p) ==
    /\ search[p].pc = "kwQuery"
    /\ search' = [search EXCEPT ![p] =
                    SearchThrow([search[p] EXCEPT !.kwFailed = TRUE])]
    /\ UNCHANGED <<serviceVars, restVars, docs, simVars, searchCalls>>

SearchIdle ==
    /\ search = [p \in SearchProcs |-> IdleSearch]
    /\ searchCalls = 0

\* ------------------------------------------------------------------------
\* creator-cache.ts: filterCreators called on a collection of its caller
\* ------------------------------------------------------------------------
FilterSample == {1, 2, 4, 6}

\* a CachedCreator with the attributes of document i
SampleCreator(i) ==
    [id |-> i, categories |-> SimCategories(i)[1], region |-> SimRegion(i),
     languages |-> SimLanguages(i), gender |-> SimGender(i),
     is_published |-> TRUE]

\* the arrays of at most n sample creators, no creator twice
SampleArrays(n) ==
    {s \in UNION {[1..k -> FilterSample] : k \in 0..n} :
       \A a, b \in 1..Len(s) : a # b => s[a] # s[b]}

FilterArgs ==
    [category : {None, Some(""), Some("y")}, region : {None, Some("eu")},
     language : {None, Some("ar")}, gender : {None, Some("f")}]

IdleFilterRun ==
    [pc |-> "idle", creators |-> <<>>, given |-> <<>>, filters |-> NoFilters,
     result |-> None]

\* the caller holds the array creators and calls filterCreators(creators, f)
FilterCalled(ids, f) ==
    LET creators == [k \in 1..Len(ids) |-> SampleCreator(ids[k])]
    IN  [pc |-> "called", creators |-> creators, given |-> creators,
         filters |-> f, result |-> None]

\* creator-cache.ts:148-173: the call returns; Array.prototype.filter builds
\* a new array and leaves its receiver as it is
FilterReturn ==
    /\ filterRun.pc = "called"
    /\ filterRun' =
         [filterRun EXCEPT !.pc = "returned",
                           !.result = Some(filterCreators(filterRun.creators,
                                                          filterRun.filters))]
    /\ UNCHANGED <<serviceVars, docs, simVars, searchVars, listVars, waitVars>>

FilterIdle == filterRun = IdleFilterRun

\* ------------------------------------------------------------------------
\* routes/creators.ts: GET / (listing with cursor pagination)
\* ------------------------------------------------------------------------
ListProcs == {1}
ListLimits == {None, Some(1), Some(2)}
ListCursors == {None} \cup {Some(i) : i \in DocIds \cup {UnknownId}}
ListParams ==
    [showDrafts : {None, Some(TRUE)}, category : {None, Some("x"), Some("y")},
     region : {None, Some("na")}, limit : ListLimits, cursor : ListCursors]

IdleList ==
    [pc |-> "idle", showDrafts |-> None, category |-> None, region |-> None,
     limit |-> None, cursor |-> None, cursorExists |-> FALSE, status |-> 0,
     body |-> None, first |-> None, seen |-> <<>>]

ListFree(p) == listing[p].pc \in {"idle", "done"}

\* const pageLimit = queryLimit ?? 50
pageLimit(r) == IF r.limit = None THEN 50 ELSE r.limit[1]

\* the where clauses of the query without cursor, in document order
listQuery(r) ==
    LET ids == SeqOfIds({i \in DocIds :
                   /\ (r.showDrafts = Some(TRUE) \/ docs[i].is_published)
                   /\ Truthy(r.category) =>
                        /\ SimCategories(i) # None
                        /\ Includes(SimCategories(i)[1], r.category[1])
                   /\ Truthy(r.region) => SimRegion(i) = r.region}, 1)
    IN  Slice(ids, pageLimit(r))

\* orderBy('name') with startAfter(cursorDoc) when that document exists,
\* limited to (pageLimit + 1) * 2; the names are in the order of the ids
cursorQuery(r) ==
    LET ids == SeqOfIds({i \in DocIds :
                   r.cursorExists => i > r.cursor[1]}, 1)
    IN  Slice(ids, (pageLimit(r) + 1) * 2)

\* the post-filter of the cursor mode on the data of document i
listPostFilter(r, i) ==
    LET data == DocData(i)
    IN  /\ (r.showDrafts = Some(TRUE) \/ data.is_published)
        /\ Truthy(r.category) =>
             /\ "categories" \in DOMAIN data
             /\ Includes(data.categories, r.category[1])
        /\ Truthy(r.region) =>
             "region" \in DOMAIN data /\ data.region = r.region[1]

\* the documents of the page before the cut: snapshot.docs, post-filtered
\* in cursor mode
allDocs(r) ==
    IF r.cursor # None
    THEN LET ids == cursorQuery(r)
         IN  SelectIdx(ids, {k \in 1..Len(ids) : listPostFilter(r, ids[k])}, 1)
    ELSE listQuery(r)

\* creators.ts:124-129: the cursor of the next page
nextCursorOf(r, ids) ==
    IF r.cursor # None /\ Len(ids) > pageLimit(r)
    THEN Some(ids[pageLimit(r)]) ELSE None

\* the documents of the page
pageDocs(r, ids) ==
    IF r.cursor # None /\ Len(ids) > pageLimit(r)
    THEN Slice(ids, pageLimit(r)) ELSE ids

\* the body of the response
listBody(r) ==
    LET ids == pageDocs(r, allDocs(r))
        creators == [n \in 1..Len(ids) |->
                       [id |-> ids[n], creatorId |-> ids[n]]
                         @@ stripEmbedding(DocData(ids[n]))]
    IN  [creators |-> creators, total |-> Len(creators),
         nextCursor |-> nextCursorOf(r, allDocs(r))]

\* creators.ts:35-96: the handler up to its first await
ListEnter(p, params, first, seen) ==
    /\ listing' = [listing EXCEPT ![p] =
           [IdleList EXCEPT !.pc = IF params.cursor # None THEN "cursorGet"
                                   ELSE "query",
                            !.showDrafts = params.showDrafts,
                            !.category = params.category,
                            !.region = params.region,
                            !.limit = params.limit,
                            !.cursor = params.cursor,
                            !.first = first, !.seen = seen]]
    /\ listCalls' = listCalls + 1
    /\ UNCHANGED <<serviceVars, docs, simVars, searchVars, filterVars, waitVars>>

\* a client asks for a page
ListStart(p, params, maxCalls) ==
    /\ listCalls < maxCalls
    /\ ListFree(p)
    /\ ListEnter(p, params, Some(params.cursor), <<>>)

\* a client that got a nextCursor asks for the next page with it
ListFollow(p, maxCalls) ==
    /\ listCalls < maxCalls
    /\ listing[p].pc = "done"
    /\ listing[p].status = 200
    /\ listing[p].body[1].nextCursor # None
    /\ ListEnter(p, [showDrafts |-> listing[p].showDrafts,
                     category |-> listing[p].category,
                     region |-> listing[p].region,
                     limit |-> listing[p].limit,
                     cursor |-> listing[p].body[1].nextCursor],
                 listing[p].first, listing[p].seen)

\* creators.ts:91-94: the cursor document is read
ListCursorGet(p) ==
    /\ listing[p].pc = "cursorGet"
    /\ listing' = [listing EXCEPT ![p].pc = "query",
                                  ![p].cursorExists =
                                     listing[p].cursor[1] \in DocIds]
    /\ UNCHANGED <<serviceVars, docs, simVars, searchVars, filterVars,
                   listCalls, waitVars>>

\* creators.ts:103-149: the query is answered and the page is returned
ListQueryOk(p) ==
    /\ listing[p].pc = "query"
    /\ LET body == listBody(listing[p])
       IN  listing' = [listing EXCEPT ![p].pc = "done", ![p].status = 200,
                                      ![p].body = Some(body),
                                      ![p].seen = listing[p].seen
                                                    \o Ids(body.creators)]
    /\ UNCHANGED <<serviceVars, docs, simVars, searchVars, filterVars,
                   listCalls, waitVars>>

\* a read of the Document Store is rejected: the request fails
ListReadFail(p) ==
    /\ listing[p].pc \in {"cursorGet", "query"}
    /\ listing' = [listing EXCEPT ![p].pc = "done", ![p].status = 500]
    /\ UNCHANGED <<serviceVars, docs, simVars, searchVars, filterVars,
                   listCalls, waitVars>>

ListIdle ==
    /\ listing = [p \in ListProcs |-> IdleList]
    /\ listCalls = 0

\* ------------------------------------------------------------------------
\* routes/public.ts: POST /waitlist
\* ------------------------------------------------------------------------
SignupProcs == {1, 2}
RawEmails == {"a@x.io", "A@X.io", "b@x.io"}
Sources == {None, Some("launch")}

\* v.trim().toLowerCase() on the addresses of RawEmails
normalizeEmail(v) == IF v = "A@X.io" THEN "a@x.io" ELSE v

IdleSignup ==
    [pc |-> "idle", email |-> "", source |-> "", status |-> 0,
     message |-> "", onList |-> FALSE]

SignupFree(p) == signup[p].pc \in {"idle", "done"}

\* where('email', '==', email).limit(1)
existing(email) ==
    Slice(SelectIdx(waitlist,
                    {n \in 1..Len(waitlist) : waitlist[n].email = email}, 1), 1)

\* public.ts:15-28: the validated body, and the dedup query is issued
SignupStart(p, raw, source, maxCalls) ==
    /\ signupCalls < maxCalls
    /\ SignupFree(p)
    /\ \A q \in SignupProcs : q < p => ~SignupFree(q)
    /\ LET email == normalizeEmail(raw)
       IN  signup' = [signup EXCEPT ![p] =
             [IdleSignup EXCEPT !.pc = "query", !.email = email,
                                !.source = IF source = None
                                           THEN "premium_page" ELSE source[1],
                                !.onList = existing(email) # <<>>]]
    /\ signupCalls' = signupCalls + 1
    /\ UNCHANGED <<serviceVars, docs, simVars, searchVars, filterVars,
                   listVars, waitlist>>

\* public.ts:24-36: the dedup query is answered; the add is issued when it
\* found nothing
SignupQueryOk(p) ==
    /\ signup[p].pc = "query"
    /\ signup' =
         IF existing(signup[p].email) # <<>>
         THEN [signup EXCEPT ![p].pc = "done", ![p].status = 200,
                             ![p].message = "Already on waitlist"]
         ELSE [signup EXCEPT ![p].pc = "add"]
    /\ UNCHANGED <<serviceVars, docs, simVars, searchVars, filterVars,
                   listVars, waitlist, signupCalls>>

\* public.ts:34-40: the add is applied and the request answered
SignupAddOk(p) ==
    /\ signup[p].pc = "add"
    /\ waitlist' = Append(waitlist, [email |-> signup[p].email,
                                     source |-> signup[p].source])
    /\ signup' = [signup EXCEPT ![p].pc = "done", ![p].status = 201,
                                ![p].message = "Added to waitlist"]
    /\ UNCHANGED <<serviceVars, docs, simVars, searchVars, filterVars,
                   listVars, signupCalls>>

\* the query or the add is rejected: the request fails, nothing is stored
SignupFail(p) ==
    /\ signup[p].pc \in {"query", "add"}
    /\ signup' = [signup EXCEPT ![p].pc = "done", ![p].status = 500]
    /\ UNCHANGED <<serviceVars, docs, simVars, searchVars, filterVars,
                   listVars, waitlist, signupCalls>>

WaitIdle ==
    /\ waitlist = <<>>
    /\ signup = [p \in SignupProcs |-> IdleSignup]
    /\ signupCalls = 0

RestIdle ==
    /\ FilterIdle
    /\ ListIdle
    /\ WaitIdle

\* no route has been called
RoutesIdle ==
    /\ docs = InitialDocs
    /\ sim = [p \in SimProcs |-> IdleSim]
    /\ writes = {}
    /\ simCalls = 0
    /\ simLog = {}
    /\ SearchIdle
    /\ RestIdle

\* ------------------------------------------------------------------------
\* Specification: concurrent requests of one process
\* ------------------------------------------------------------------------
Filters ==
    {NoFilters}

\* the services of a process that has just started
ServicesIdle ==
    /\ clock = 0
    /\ store = [i \in CreatorIds |-> i = 1]
    /\ updates = 0
    /\ memCache = None
    /\ memCacheTime = 0
    /\ cachedIndex = None
    /\ cachedCreatorRef = None
    /\ filteredCache = <<>>
    /\ redisSnap = None
    /\ redisIdx = None
    /\ inflight = {}
    /\ nextRef = 1
    /\ nextIid = 1
    /\ calls = 0
    /\ req = [p \in Procs |-> IdleReq]
    /\ hist = {}
    /\ lastF = {}
    /\ useOrder = <<>>
    /\ evict = None
    /\ failed = {}
    /\ logged = {}
    /\ invalidated = 0

Init ==
    /\ redis \in BOOLEAN
    /\ ServicesIdle
    /\ RoutesIdle

Next ==
    \/ \E i \in CreatorIds : StoreUpdate(i)
    \/ \E p \in Procs : \E f \in Filters : StartSearch(p, f, MaxCalls)
    \/ invalidateCache(MaxCalls)
    \/ \E p \in Procs : RedisGetSnapOk(p)
    \/ \E p \in Procs : RedisGetSnapFail(p)
    \/ \E p \in Procs : FsLoadOk(p)
    \/ \E p \in Procs : FsLoadFail(p)
    \/ \E p \in Procs : SearchContinue(p)
    \/ \E p \in Procs : IdxRestoreOk(p)
    \/ \E p \in Procs : IdxRestoreFail(p)
    \/ RedisApply
    \/ RedisReject

Spec == Init /\ [][Next]_vars

\* ------------------------------------------------------------------------
\* Specification: concurrent direct calls of getCachedCreators
\* ------------------------------------------------------------------------
NextSnap ==
    \/ Tick(MaxSnapTicks)
    \/ \E p \in Procs : StartGet(p, MaxSnapCalls)
    \/ invalidateCache(MaxSnapCalls)
    \/ \E p \in Procs : RedisGetSnapOk(p)
    \/ \E p \in Procs : RedisGetSnapFail(p)
    \/ \E p \in Procs : FsLoadOk(p)
    \/ \E p \in Procs : FsLoadFail(p)
    \/ RedisApply
    \/ RedisReject

SpecSnap == Init /\ [][NextSnap]_vars

\* ------------------------------------------------------------------------
\* Specification: filtered searches of one task against a filtered-index
\* cache that earlier searches have filled
\* ------------------------------------------------------------------------
LRUFilter(i) == [NoFilters EXCEPT !.category = Some("c" \o ToString(i))]

LRUPrefill == {FILTERED_MAX_ENTRIES - 1, FILTERED_MAX_ENTRIES}

\* the filters the searches use: those of the two oldest entries and of the
\* newest entry of a full cache, and filters that are not cached
LRUKeys == {1, 2} \cup (FILTERED_MAX_ENTRIES..NumLRUKeys)

\* the entry the i-th filtered search built at time 0 over the collection
\* creators (collection 1; the i-th search filtered it into collection i + 1)
PrefilledEntry(i, creators) ==
    LET filtered == [ref |-> i + 1,
                     data |-> filterCreators(creators.data, LRUFilter(i))]
    IN  [key |-> makeFilterKey(LRUFilter(i)),
         index |-> [iid |-> i, docs |-> filtered, recs |-> filtered.data],
         creatorRef |-> creators.ref, timestamp |-> 0]

\* the state after n filtered searches with the filters LRUFilter(1..n), run
\* one after the other at time 0 on a process without Distributed Cache
InitLRU ==
    /\ clock = 0
    /\ redis = FALSE
    /\ store = [i \in CreatorIds |-> i = 1]
    /\ updates = 0
    /\ memCache = Some([ref |-> 1, data |-> loadFromFirestore, readAt |-> 0])
    /\ memCacheTime = 0
    /\ cachedIndex = None
    /\ cachedCreatorRef = None
    /\ \E n \in LRUPrefill :
         /\ filteredCache = [i \in 1..n |-> PrefilledEntry(i, memCache[1])]
         /\ nextRef = n + 2
         /\ nextIid = n + 1
         /\ useOrder = [i \in 1..n |-> makeFilterKey(LRUFilter(i))]
         /\ lastF = {[key |-> makeFilterKey(LRUFilter(i)), t |-> 0, iid |-> i,
                      ref |-> 1] : i \in 1..n}
    /\ redisSnap = None
    /\ redisIdx = None
    /\ inflight = {}
    /\ calls = 0
    /\ req = [p \in Procs |-> IdleReq]
    /\ hist = {[ref |-> 1, ts |-> 0]}
    /\ evict = None
    /\ failed = {}
    /\ logged = {}
    /\ invalidated = 0
    /\ RoutesIdle

NextLRU ==
    \/ Tick(MaxLRUTicks)
    \/ \E p \in LRUProcs : \E i \in LRUKeys :
         StartSearch(p, LRUFilter(i), MaxLRUCalls)
    \/ invalidateCache(MaxLRUCalls)
    \/ \E p \in LRUProcs : FsLoadOk(p)
    \/ \E p \in LRUProcs : SearchContinue(p)

SpecLRU == InitLRU /\ [][NextLRU]_vars

\* ------------------------------------------------------------------------
\* Specification: similarity requests, one after the other, with their
\* write-backs in flight and external writes that unpublish creators
\* ------------------------------------------------------------------------
InitSimilar ==
    /\ redis = FALSE
    /\ ServicesIdle
    /\ \E pre \in {None, Some(<<>>), Some(StoredSimilar)} :
         docs = [InitialDocs EXCEPT ![4].precomputed_similar = pre]
    /\ sim = [p \in SimProcs |-> IdleSim]
    /\ writes = {}
    /\ simCalls = 0
    /\ simLog = {}
    /\ SearchIdle
    /\ RestIdle

NextSimilar ==
    \/ \E p \in SimProcs : \E i \in SimSources : \E l \in SimLimits :
         SimilarStart(p, i, l, MaxSimCalls)
    \/ \E p \in SimProcs : SimilarDocGet(p)
    \/ \E p \in SimProcs : \E d \in BOOLEAN : SimilarKnn(p, d)
    \/ \E p \in SimProcs : SimilarCategory(p)
    \/ \E p \in SimProcs : SimilarReadFail(p)
    \/ WriteBackApply
    \/ WriteBackReject
    \/ \E i \in DocIds : DocUnpublish(i, MaxUnpublished)

SpecSimilar == InitSimilar /\ [][NextSimilar]_vars

\* ------------------------------------------------------------------------
\* Specification: search requests in the three modes, with failures of the
\* embedding provider and of the Document Store, and external writes that
\* unpublish creators
\* ------------------------------------------------------------------------
InitSearch ==
    /\ redis = FALSE
    /\ ServicesIdle
    /\ RoutesIdle

NextSearch ==
    \/ \E p \in SearchProcs : \E q \in Queries : \E m \in Modes :
         \E l \in SearchLimits : \E w \in Weights : \E f \in SearchFilters :
           SearchStart(p, q, m, l, w, f, MaxSearchCalls)
    \/ \E p \in SearchProcs : EmbedOk(p)
    \/ \E p \in SearchProcs : SemanticFail(p)
    \/ \E p \in SearchProcs : \E d \in BOOLEAN : SearchKnnOk(p, d)
    \/ \E p \in SearchProcs : KeywordQueryOk(p)
    \/ \E p \in SearchProcs : KeywordQueryFail(p)
    \/ \E i \in DocIds : DocUnpublish(i, MaxSearchUnpublished)

SpecSearch == InitSearch /\ [][NextSearch]_vars

\* ------------------------------------------------------------------------
\* Specification: filterCreators applied to the arrays of at most
\* MaxFilterLen creators and to the filters of FilterArgs
\* ------------------------------------------------------------------------
InitFilter ==
    /\ redis = FALSE
    /\ ServicesIdle
    /\ docs = InitialDocs
    /\ sim = [p \in SimProcs |-> IdleSim]
    /\ writes = {}
    /\ simCalls = 0
    /\ simLog = {}
    /\ SearchIdle
    /\ \E ids \in SampleArrays(MaxFilterLen) : \E f \in FilterArgs :
         filterRun = FilterCalled(ids, f)
    /\ ListIdle
    /\ WaitIdle

NextFilter ==
    \/ FilterReturn

SpecFilter == InitFilter /\ [][NextFilter]_vars

\* ------------------------------------------------------------------------
\* Specification: overlapping filtered searches and invalidations; the
\* filter values are any strings the schema admits, the delimiter of the
\* filter key included
\* ------------------------------------------------------------------------
KeyFilters ==
    {[NoFilters EXCEPT !.category = Some("c1|c2"), !.region = Some("eu")],
     [NoFilters EXCEPT !.category = Some("c1"), !.region = Some("c2|eu")],
     [NoFilters EXCEPT !.category = Some("c1"), !.region = Some("")],
     [NoFilters EXCEPT !.category = Some("c1")],
     [NoFilters EXCEPT !.region = Some("eu")]}

InitKey ==
    /\ redis = FALSE
    /\ ServicesIdle
    /\ RoutesIdle

NextKey ==
    \/ \E p \in Procs : \E f \in KeyFilters : StartSearch(p, f, MaxKeyCalls)
    \/ invalidateCache(MaxKeyCalls)
    \/ \E p \in Procs : FsLoadOk(p)
    \/ \E p \in Procs : FsLoadFail(p)
    \/ \E p \in Procs : SearchContinue(p)

SpecKey == InitKey /\ [][NextKey]_vars

\* ------------------------------------------------------------------------
\* Specification: getCachedCreators with the Distributed Cache configured,
\* over a time longer than the TTL of the in-process entry
\* ------------------------------------------------------------------------
InitAge ==
    /\ redis = TRUE
    /\ ServicesIdle
    /\ RoutesIdle

NextAge ==
    \/ Tick(MaxAgeTicks)
    \/ \E p \in Procs : StartGet(p, MaxAgeCalls)
    \/ \E p \in Procs : RedisGetSnapOk(p)
    \/ \E p \in Procs : FsLoadOk(p)
    \/ RedisApply

SpecAge == InitAge /\ [][NextAge]_vars

\* ------------------------------------------------------------------------
\* Specification: similarity requests for sources that carry an embedding,
\* starting without any similarity-cache field, while time passes, the
\* write-backs are applied and external writes unpublish creators
\* ------------------------------------------------------------------------
WbSources == {4}

InitWriteBack ==
    /\ redis = FALSE
    /\ ServicesIdle
    /\ RoutesIdle

NextWriteBack ==
    \/ Tick(MaxWbTicks)
    \/ \E p \in SimProcs : \E i \in WbSources : \E l \in SimLimits :
         SimilarStart(p, i, l, MaxWbCalls)
    \/ \E p \in SimProcs : SimilarDocGet(p)
    \/ \E p \in SimProcs : SimilarKnn(p, TRUE)
    \/ WriteBackApply
    \/ \E i \in DocIds : DocUnpublish(i, MaxWbUnpublished)

SpecWriteBack == InitWriteBack /\ [][NextWriteBack]_vars

\* ------------------------------------------------------------------------
\* Specification: listing requests of one client, page after page
\* ------------------------------------------------------------------------
InitList ==
    /\ redis = FALSE
    /\ ServicesIdle
    /\ RoutesIdle

NextList ==
    \/ \E p \in ListProcs : \E params \in ListParams :
         ListStart(p, params, MaxListCalls)
    \/ \E p \in ListProcs : ListFollow(p, MaxListCalls)
    \/ \E p \in ListProcs : ListCursorGet(p)
    \/ \E p \in ListProcs : ListQueryOk(p)
    \/ \E p \in ListProcs : ListReadFail(p)

SpecList == InitList /\ [][NextList]_vars

\* ------------------------------------------------------------------------
\* Specification: concurrent waitlist signups
\* ------------------------------------------------------------------------
InitWaitlist ==
    /\ redis = FALSE
    /\ ServicesIdle
    /\ RoutesIdle

NextWaitlist ==
    \/ \E p \in SignupProcs : \E raw \in RawEmails : \E source \in Sources :
         SignupStart(p, raw, source, MaxSignupCalls)
    \/ \E p \in SignupProcs : SignupQueryOk(p)
    \/ \E p \in SignupProcs : SignupAddOk(p)
    \/ \E p \in SignupProcs : SignupFail(p)

SpecWaitlist == InitWaitlist /\ [][NextWaitlist]_vars

\* ------------------------------------------------------------------------
\* Properties
\* ------------------------------------------------------------------------
\* task p runs the filtered branch of keywordSearchCached in this step
FilteredStep(p) ==
    /\ req[p].pc = "afterSnap"
    /\ req'[p].pc = "done"
    /\ hasFilters(req[p].filters)

CachedKeys(m) == Range(MapKeys(m))

\* C1: the filtered-index cache never holds more than 20 entries, and the
\* insertion of a key that is not cached while 20 entries are cached removes
\* exactly one of them and keeps the new one.
C1_SizeBounded ==
    /\ [](Len(filteredCache) <= FILTERED_MAX_ENTRIES)
    /\ [][\A p \in Procs :
            ( /\ FilteredStep(p)
              /\ ~MapHas(filteredCache, makeFilterKey(req[p].filters))
              /\ Len(filteredCache) = FILTERED_MAX_ENTRIES )
            => /\ Len(filteredCache') = FILTERED_MAX_ENTRIES
               /\ MapHas(filteredCache', makeFilterKey(req[p].filters))
               /\ Cardinality(CachedKeys(filteredCache)
                                \ CachedKeys(filteredCache')) = 1]_vars

\* a search has inserted a new key into a full cache and has returned
C1_Witness ==
    /\ evict # None
    /\ evict[1].sizeBefore = FILTERED_MAX_ENTRIES
    /\ \E p \in Procs : /\ req[p].pc = "done"
                        /\ makeFilterKey(req[p].filters) = evict[1].inserted
                        /\ req[p].built = 1

\* C2: whenever the filtered-index cache evicts, the entry removed is the one
\* whose last use (a hit, or the build or rebuild of the entry) is the oldest.
C2_EvictsLeastRecentlyUsed ==
    evict # None => evict[1].victims = {evict[1].lru}

Starts(p) == req'[p].cid = calls + 1 /\ calls' = calls + 1 /\ req'[p].op # "none"

\* the call of task p took the in-process fast path and returned the
\* collection ref: no Distributed Cache read, no Document Store query
FastPath(p, ref) ==
    /\ req'[p].snap # None
    /\ req'[p].snap[1].ref = ref
    /\ req'[p].src = "mem"
    /\ ~req'[p].snapRead
    /\ ~req'[p].fsQuery
    /\ UNCHANGED <<memVars, inflight, nextRef>>

\* C3 as claimed: a call that starts less than 300 s after the timestamp of
\* the entry an earlier call returned, with no invalidate() in between,
\* returns the same reference without I/O.
C3_SameReferenceWithinTTL ==
    [][\A p \in Procs : Starts(p) =>
         \A h \in hist :
           clock - h.ts < CACHE_TTL_SECONDS * 1000 => FastPath(p, h.ref)]_vars

\* C3 amended: the same, provided that the in-process entry the earlier call
\* returned has not been replaced (by the completion of another load) nor
\* invalidated in between.
C3_SameReferenceWhileEntryInPlace ==
    [][\A p \in Procs : Starts(p) =>
         \A h \in hist :
           ( /\ memCache # None
             /\ memCache[1].ref = h.ref
             /\ clock - h.ts < CACHE_TTL_SECONDS * 1000 )
           => FastPath(p, h.ref)]_vars

\* a second call has returned, on the fast path, an entry that a first call
\* loaded, at a later time
C3_Witness ==
    \E p \in Procs :
      /\ req[p].op = "get"
      /\ req[p].pc = "done"
      /\ req[p].src = "mem"
      /\ req[p].now > memCacheTime
      /\ \E h \in hist : h.ref = req[p].snap[1].ref /\ h.ts = memCacheTime

\* the call of task p goes on to the Document Store in this step
QueriesStore(p) ==
    /\ req'[p].fsQuery
    /\ req'[p].pc = "fsLoad"
    /\ req[p].pc # "fsLoad"

\* C9: a usable Distributed Cache read is adopted as the in-process entry,
\* timestamped with the now of the call, and returned without a Document
\* Store query; the Document Store is queried only after the in-process
\* tier has missed and the Distributed Cache is absent, failed or yielded
\* nothing.
C9_RedisTierBeforeStore ==
    /\ [][\A p \in Procs :
            (req[p].pc = "redisGet" /\ RedisSnapUsable(RedisSnapValue)
               /\ req'[p].pc # "redisGet" /\ ~req'[p].rdFail)
            => /\ req'[p].src = "redis"
               /\ req'[p].snap = memCache'
               /\ memCache'[1].data = RedisSnapValue[1]
               /\ memCacheTime' = req[p].now
               /\ ~req'[p].fsQuery
               /\ req'[p].pc = "done"]_vars
    /\ [][\A p \in Procs :
            (req'[p].pc = "redisGet" /\ req[p].pc # "redisGet")
            => Starts(p) /\ ~MemCacheValid(clock) /\ redis]_vars
    /\ [][\A p \in Procs : QueriesStore(p) =>
            \/ Starts(p) /\ ~MemCacheValid(clock) /\ ~redis
            \/ req[p].pc = "redisGet" /\ req'[p].rdFail
            \/ req[p].pc = "redisGet" /\ ~RedisSnapUsable(RedisSnapValue)]_vars
    /\ [](\A p \in Procs :
            req[p].src = "redis" => ~req[p].fsQuery /\ req[p].snapRead)

\* a call has returned a collection adopted from the Distributed Cache
\* after its in-process entry had expired or was absent
C9_Witness ==
    \E p \in Procs :
      /\ req[p].pc = "done"
      /\ req[p].src = "redis"
      /\ memCache = req[p].snap
      /\ memCacheTime = req[p].now

\* the collections held by the in-process entry and by the requests
Snapshots ==
    {s[1] : s \in {t \in {memCache} \cup {req[p].snap : p \in Procs} :
                     t # None}}

\* C10: every record of every collection getCachedCreators installs or
\* returns has is_published true, whichever tier it came from.
C10_OnlyPublished ==
    \A s \in Snapshots : \A k \in 1..Len(s.data) : s.data[k].is_published = TRUE

\* collections from the Document Store and from the Distributed Cache have
\* been returned while the Document Store holds an unpublished document
C10_Witness ==
    /\ \E i \in CreatorIds : ~store[i]
    /\ \E p \in Procs : req[p].src = "redis" /\ Len(req[p].snap[1].data) > 0
    /\ \E s \in Snapshots : Len(s.data) > 0

\* task p runs the unfiltered branch of keywordSearchCached in this step
UnfilteredStep(p) ==
    /\ req[p].pc = "afterSnap"
    /\ req'[p].pc # "afterSnap"
    /\ ~hasFilters(req[p].filters)

\* the search of task p is answered from the cached full index: same
\* instance, no Distributed Cache read, nothing built or restored
ReusesFullIndex(p) ==
    /\ req'[p].pc = "done"
    /\ req'[p].reused
    /\ cachedIndex # None
    /\ req'[p].idx = cachedIndex
    /\ ~req'[p].idxRead
    /\ req'[p].built = 0
    /\ req'[p].restored = 0
    /\ UNCHANGED <<idxVars, nextIid, inflight>>

\* C4: an unfiltered search reuses the full index exactly when the reference
\* getCachedCreators returned is the reference recorded with the index;
\* otherwise exactly one index is restored or built and the recorded
\* reference becomes the collection of the search.
C4_ReuseIffSameReference ==
    /\ [][\A p \in Procs : UnfilteredStep(p) =>
            (ReusesFullIndex(p)
               <=> cachedCreatorRef = Some(req[p].snap[1].ref))]_vars
    /\ [][\A p \in Procs :
            (req[p].pc = "idxRestore" /\ req'[p].pc # "idxRestore")
            => /\ req'[p].pc = "done"
               /\ req'[p].built + req'[p].restored = 1
               /\ nextIid' = nextIid + 1
               /\ cachedIndex' = req'[p].idx
               /\ cachedIndex'[1].iid = nextIid
               /\ cachedCreatorRef' = Some(req[p].snap[1].ref)]_vars

\* one search has reused the full index that another search had to obtain
C4_Witness ==
    \E p, q \in Procs :
      /\ req[p].pc = "done" /\ req[p].reused /\ ~hasFilters(req[p].filters)
      /\ req[q].pc = "done" /\ req[q].built + req[q].restored = 1
      /\ req[p].idx = req[q].idx
      /\ req[p].cid > req[q].cid
      /\ cachedCreatorRef = Some(req[p].snap[1].ref)

AbsorbsCacheFailures ==
    /\ [](\A p \in Procs : req[p].status = "failed" => req[p].fsFail)
    /\ [][\A p \in Procs :
            (req[p].pc = "redisGet" /\ ~req[p].rdFail /\ req'[p].rdFail)
            => req'[p].pc = "fsLoad" /\ req'[p].status = "pending"]_vars
    /\ [][\A p \in Procs :
            (req[p].pc = "idxRestore" /\ ~req[p].rdFail /\ req'[p].rdFail)
            => /\ req'[p].pc = "done"
               /\ req'[p].status = "ok"
               /\ req'[p].built = 1]_vars
    /\ [][failed' # failed /\ inflight' # inflight /\ inflight' \subseteq inflight
            => UNCHANGED <<req, memVars, idxVars, redisVars, filteredCache>>]_vars

\* C7 as claimed: no Distributed Cache failure fails a call, a failed read
\* falls through to the next tier, and every failed write or delete is
\* logged.
C7_FailuresAbsorbedAndLogged ==
    AbsorbsCacheFailures /\ [](failed \subseteq logged)

\* C7 amended: no Distributed Cache failure fails a call, a failed read
\* falls through to the next tier and is logged, a failed write is only
\* logged, and a failed delete is dropped without a log entry.
C7_FailuresAbsorbed ==
    /\ AbsorbsCacheFailures
    /\ [](failed \ {"del"} \subseteq logged)
    /\ []("del" \notin logged)

\* a search has completed although a Distributed Cache operation of it was
\* rejected
C7_Witness ==
    /\ failed # {}
    /\ \E p \in Procs : /\ req[p].pc = "done"
                        /\ req[p].rdFail
                        /\ req[p].status = "ok"

\* C8: a write to the Distributed Cache is only ever in flight after the
\* call that issued it has returned, and the end of the write (applied or
\* rejected) changes nothing of any request.
C8_WriteBackNotAwaited ==
    /\ [](\A m \in inflight : \A p \in Procs :
            req[p].cid = m.from =>
              /\ m.kind = "setSnap" =>
                   /\ req[p].pc \in {"afterSnap", "idxRestore", "done"}
                   /\ req[p].snap # None
                   /\ req[p].src = "store"
              /\ m.kind = "setIdx" =>
                   /\ req[p].pc = "done"
                   /\ req[p].status = "ok"
                   /\ req[p].built = 1)
    /\ [][inflight' # inflight /\ inflight' \subseteq inflight
            => req' = req]_vars

\* a search has returned while the write-through of its collection and the
\* write of its index are both still in flight
C8_Witness ==
    \E p \in Procs : \E m1, m2 \in inflight :
      /\ m1.kind = "setSnap" /\ m1.from = req[p].cid
      /\ m2.kind = "setIdx" /\ m2.from = req[p].cid
      /\ req[p].pc = "done"
      /\ req[p].status = "ok"

\* invalidateCache runs in this step
Invalidates == invalidated' # invalidated

\* the effect of one invalidateCache: the in-process entry is emptied, a
\* delete of the snapshot key is issued (and not applied) when a Distributed
\* Cache is configured, and no request is touched
InvalidateEffect ==
    [][Invalidates =>
         /\ memCache' = None
         /\ memCacheTime' = 0
         /\ IF redis
            THEN \E m \in inflight' \ inflight :
                   m.kind = "del" /\ inflight' = inflight \cup {m}
            ELSE inflight' = inflight
         /\ UNCHANGED <<req, redisVars, logVars>>]_vars

\* a rejected delete fails no request
DeleteFailureAbsorbed ==
    [][(\E m \in inflight \ inflight' : m.kind = "del") /\ failed' # failed
         => UNCHANGED <<req, memVars>>]_vars

\* the call started next after an invalidateCache misses the in-process entry
FirstCallAfterInvalidateMisses ==
    [][\A p \in Procs :
         Starts(p) /\ invalidated > 0 /\ req'[p].cid = invalidated + 1
           => req'[p].src # "mem" /\ req'[p].pc \in {"redisGet", "fsLoad"}]_vars

\* C11: invalidate() empties the in-process entry at once (snapshot absent,
\* timestamp 0), issues a delete of the snapshot key without waiting for it
\* when a Distributed Cache is configured, never raises, and the first
\* getSnapshot call started after it returned does not take the in-process
\* fast path.
C11_InvalidateClearsAtOnce ==
    /\ InvalidateEffect
    /\ DeleteFailureAbsorbed
    /\ FirstCallAfterInvalidateMisses

\* ------------------------------------------------------------------------
\* Properties of GET /similar
\* ------------------------------------------------------------------------
\* the request of task p has answered from its resolution (not 404, not 500)
Resolved(p) == sim[p].pc = "done" /\ sim[p].status = 200

\* the stage that answered the resolved request r
ByPrecomputed(r) == IsNonEmptyArray(r.source[1], "precomputed_similar")
ByKnn(r) == r.knn = 1
ByCategory(r) == r.cat = 1

\* the document with identifier id in the answer of a query
InAnswer(answer, id) ==
    answer[CHOOSE n \in 1..Len(answer) : answer[n].id = id]

Min(a, b) == IF a < b THEN a ELSE b

\* C12: a similarity request issues at most one query: never a KNN query
\* and a category query both, and neither of them (nor a write-back) when
\* the precomputed field it read is a non-empty array.
C12_AtMostOneStage ==
    \A p \in SimProcs :
      LET r == sim[p]
      IN  /\ r.knn + r.cat <= 1
          /\ r.wb <= r.knn
          /\ (r.source # None /\ ByPrecomputed(r))
               => r.knn = 0 /\ r.cat = 0 /\ r.wb = 0

\* a request has answered from the live-KNN stage, without category query,
\* for a source that has categories
C12_Witness ==
    \E p \in SimProcs :
      /\ Resolved(p)
      /\ sim[p].knn = 1
      /\ sim[p].cat = 0
      /\ IsNonEmptyArray(sim[p].source[1], "categories")

\* C13: for a source whose similarity-cache field is a non-empty array the
\* result is the first `limit` entries of the field in stored order (id,
\* similarity = stored score, slug, name), the response is marked
\* precomputed, and no KNN query, category query or write-back is issued.
C13_PrecomputedAnswer ==
    \A p \in SimProcs :
      (sim[p].pc = "done" /\ sim[p].source # None /\ ByPrecomputed(sim[p])) =>
        LET r == sim[p]
            field == r.source[1].precomputed_similar
            results == r.body[1].results
        IN  /\ r.status = 200
            /\ Len(results) = Min(r.limit, Len(field))
            /\ \A n \in 1..Len(results) :
                 /\ results[n].id = field[n].id
                 /\ results[n].similarity = field[n].score
                 /\ results[n].slug = field[n].slug
                 /\ results[n].name = field[n].name
            /\ r.body[1].precomputed = TRUE
            /\ r.knn = 0 /\ r.cat = 0 /\ r.wb = 0
            /\ \A w \in writes : w.from # r.cid

\* a request was answered from a stored field longer than its limit
C13_Witness ==
    \E p \in SimProcs :
      /\ sim[p].pc = "done"
      /\ sim[p].source # None
      /\ ByPrecomputed(sim[p])
      /\ Len(sim[p].source[1].precomputed_similar) > sim[p].limit
      /\ Len(sim[p].body[1].results) = sim[p].limit

\* s is t without some of its elements, the order kept
RECURSIVE IsSubsequence(_, _)
IsSubsequence(s, t) ==
    IF s = <<>> THEN TRUE
    ELSE IF t = <<>> THEN FALSE
    ELSE IF Head(s) = Head(t) THEN IsSubsequence(Tail(s), Tail(t))
    ELSE IsSubsequence(s, Tail(t))

\* C14: the result of the live-KNN stage never contains the source, holds
\* only candidates the KNN query returned as published, has at most `limit`
\* entries in the order of the KNN answer (the first such candidates of an
\* over-fetch of 2 x (limit + 1)), and is returned with fallback = false.
C14_KnnResult ==
    \A p \in SimProcs :
      (Resolved(p) /\ ByKnn(sim[p])) =>
        LET r == sim[p]
            answer == r.answer[1]
            results == r.body[1].results
            eligible == {n \in 1..Len(answer) :
                           /\ answer[n].id # r.creatorId
                           /\ answer[n].data.is_published}
        IN  /\ "embedding" \in DOMAIN r.source[1]
            /\ ~ByPrecomputed(r)
            /\ r.knnLimit = 2 * (r.limit + 1)
            /\ Len(answer) <= r.knnLimit
            /\ Len(results) = Min(r.limit, Cardinality(eligible))
            /\ \A n \in 1..Len(results) :
                 /\ results[n].id # r.creatorId
                 /\ \E k \in eligible : answer[k].id = results[n].id
            /\ IsSubsequence(Ids(results), Ids(answer))
            /\ \A k \in eligible :
                 (\A n \in 1..Len(results) : results[n].id # answer[k].id)
                   => \A n \in 1..Len(results) :
                        \E j \in eligible : j < k /\ answer[j].id = results[n].id
            /\ r.body[1].fallback = FALSE

\* a live-KNN answer held the source and an unpublished candidate, and the
\* request returned `limit` other candidates and left a published one out
C14_Witness ==
    \E p \in SimProcs :
      /\ Resolved(p)
      /\ ByKnn(sim[p])
      /\ \E n \in 1..Len(sim[p].answer[1]) :
           sim[p].answer[1][n].id = sim[p].creatorId
      /\ \E n \in 1..Len(sim[p].answer[1]) :
           ~sim[p].answer[1][n].data.is_published
      /\ Len(sim[p].body[1].results) = sim[p].limit
      /\ \E n \in 1..Len(sim[p].answer[1]) :
           /\ sim[p].answer[1][n].data.is_published
           /\ sim[p].answer[1][n].id # sim[p].creatorId
           /\ \A k \in 1..Len(sim[p].body[1].results) :
                sim[p].body[1].results[k].id # sim[p].answer[1][n].id

\* the KNN query of task p is answered in this step
KnnStep(p) ==
    sim[p].pc = "knn" /\ sim'[p].pc = "done" /\ sim'[p].status = 200

\* the write-back w carries the results of the request r
CarriesResults(w, r) ==
    LET results == r.body[1].results
    IN  /\ w.doc = r.creatorId
        /\ w.from = r.cid
        /\ Len(w.val) = Len(results)
        /\ \A n \in 1..Len(results) :
             w.val[n] = [id |-> results[n].id, score |-> results[n].similarity,
                         slug |-> results[n].slug, name |-> results[n].name]

\* C15: the live-KNN stage issues a write-back of its result (id, score,
\* slug, name per entry, and the time) onto the source record if and only if
\* it produced at least one result; the response is sent while the
\* write-back is pending, and no outcome of the write-back changes it.
C15_WriteBackIffResults ==
    /\ [][\A p \in SimProcs : KnnStep(p) =>
            IF Len(sim'[p].body[1].results) > 0
            THEN \E w \in writes' \ writes :
                   /\ writes' = writes \cup {w}
                   /\ CarriesResults(w, sim'[p])
                   /\ w.at = clock
            ELSE writes' = writes]_vars
    /\ [][writes' \ writes # {} => \E p \in SimProcs : KnnStep(p)]_vars
    /\ [][writes' # writes /\ writes' \subseteq writes => sim' = sim]_vars
    /\ [](\A w \in writes : \A p \in SimProcs :
            sim[p].cid = w.from => Resolved(p) /\ CarriesResults(w, sim[p]))

\* a request has its results although its write-back was rejected
C15_Witness ==
    \E p \in SimProcs :
      /\ Resolved(p)
      /\ sim[p].cid \in simLog
      /\ sim[p].wb = 1
      /\ Len(sim[p].body[1].results) > 0

\* C16: every result of the live-KNN stage reports similarity 1 - distance
\* for the distance the KNN answer gave for that candidate (0 when it gave
\* none), and carries neither the embedding nor the field _distance.
C16_SimilarityFromDistance ==
    \A p \in SimProcs :
      (Resolved(p) /\ ByKnn(sim[p])) =>
        \A n \in 1..Len(sim[p].body[1].results) :
          LET e == sim[p].body[1].results[n]
              data == InAnswer(sim[p].answer[1], e.id).data
          IN  /\ e.similarity = IF "_distance" \in DOMAIN data
                                THEN Unit - data._distance ELSE 0
              /\ "embedding" \notin DOMAIN e
              /\ "_distance" \notin DOMAIN e

\* a live-KNN result for a candidate the answer gave with its embedding and
\* a distance that is neither 0 nor 1
C16_Witness ==
    \E p \in SimProcs :
      /\ Resolved(p)
      /\ ByKnn(sim[p])
      /\ \E n \in 1..Len(sim[p].body[1].results) :
           LET e == sim[p].body[1].results[n]
               data == InAnswer(sim[p].answer[1], e.id).data
           IN  /\ "embedding" \in DOMAIN data
               /\ "_distance" \in DOMAIN data
               /\ e.similarity \notin {0, Unit}

\* C17: for a source with neither a non-empty precomputed field nor an
\* embedding but with a category, every entry returned is a published record
\* other than the source that has the source's first category, with
\* similarity 0; there are at most `limit` entries and fallback = true.
C17_CategoryFallback ==
    \A p \in SimProcs :
      (Resolved(p) /\ ByCategory(sim[p])) =>
        LET r == sim[p]
            key == r.source[1].categories[1]
            results == r.body[1].results
        IN  /\ ~ByPrecomputed(r)
            /\ ~IsNonEmptyArray(r.source[1], "embedding")
            /\ Len(results) <= r.limit
            /\ \A n \in 1..Len(results) :
                 /\ results[n].id # r.creatorId
                 /\ results[n].id \in DocIds
                 /\ Includes(SimCategories(results[n].id)[1], key)
                 /\ InAnswer(r.answer[1], results[n].id).data.is_published
                 /\ results[n].similarity = 0
            /\ r.body[1].fallback = TRUE

\* a category answer held the source, and the request returned another
\* creator
C17_Witness ==
    \E p \in SimProcs :
      /\ Resolved(p)
      /\ ByCategory(sim[p])
      /\ \E n \in 1..Len(sim[p].answer[1]) :
           sim[p].answer[1][n].id = sim[p].creatorId
      /\ Len(sim[p].body[1].results) > 0

\* C18: a similarity request for an identifier without a record issues no
\* KNN query, no category query and no write-back, and when the read of the
\* record is answered it ends with the not-found result.
C18_UnknownIsNotFound ==
    \A p \in SimProcs :
      (sim[p].pc # "idle" /\ sim[p].creatorId \notin DocIds) =>
        /\ sim[p].pc \in {"docGet", "done"}
        /\ sim[p].knn = 0 /\ sim[p].cat = 0 /\ sim[p].wb = 0
        /\ \A w \in writes : w.from # sim[p].cid
        /\ (sim[p].pc = "done" /\ sim[p].status # 500)
             => sim[p].status = 404 /\ "error" \in DOMAIN sim[p].body[1]

\* a request for the unknown identifier has ended not-found
C18_Witness ==
    \E p \in SimProcs :
      /\ sim[p].pc = "done"
      /\ sim[p].creatorId = UnknownId
      /\ sim[p].status = 404

\* ------------------------------------------------------------------------
\* Properties of POST / (hybrid search)
\* ------------------------------------------------------------------------
\* the search request of task p has ended with a response of results
Answered(p) == search[p].pc = "done" /\ search[p].status = 200

\* C19: when the semantic path fails (embedding provider error or timeout,
\* or KNN error), a semantic-only request fails; a hybrid request goes on
\* with the keyword path, the semantic path contributes no identifier, and
\* the response (once the keyword query is answered) is a success that
\* holds min(limit, number of keyword matches) identifiers, all of them
\* identifiers of the keyword path, each with semantic score 0.
C19_SemanticFailurePolicy ==
    \A p \in SearchProcs :
      LET r == search[p]
      IN  r.semFailed =>
            /\ r.mode = "semantic" =>
                 r.pc = "done" /\ r.status = 500 /\ r.kw = 0
            /\ r.mode = "hybrid" =>
                 /\ r.kw = 1
                 /\ r.semanticResults = <<>>
                 /\ r.pc = "kwQuery" \/ Answered(p) \/ r.kwFailed
                 /\ Answered(p) =>
                      LET results == r.body[1].results
                          kw == r.keywordResults[1]
                      IN  /\ Len(results) = Min(r.limit, Len(kw))
                          /\ \A n \in 1..Len(results) :
                               /\ Has(kw, results[n].id)
                               /\ results[n].semanticScore = 0
                               /\ \A m \in 1..Len(results) :
                                    results[m].id = results[n].id => m = n

\* a hybrid request whose KNN query was rejected has answered `limit` of
\* the more than `limit` identifiers of its keyword path
C19_Witness ==
    \E p \in SearchProcs :
      /\ Answered(p)
      /\ search[p].mode = "hybrid"
      /\ search[p].semFailed
      /\ search[p].knn = 1
      /\ Len(search[p].keywordResults[1]) > search[p].limit
      /\ Len(search[p].body[1].results) = search[p].limit

\* C20: a keyword-only request never calls the embedding provider or the
\* KNN query, a semantic-only request never runs the keyword path, and a
\* hybrid request attempts both paths.
C20_PathsByMode ==
    \A p \in SearchProcs :
      LET r == search[p]
      IN  /\ r.mode = "keyword" =>
               r.embed = 0 /\ r.knn = 0 /\ r.knnAnswer = None
                 /\ r.semanticResults = <<>>
          /\ r.mode = "semantic" => r.kw = 0 /\ r.keywordResults = None
          /\ r.mode = "hybrid" =>
               /\ r.embed = 1
               /\ r.pc = "done" => r.kw = 1
               /\ Answered(p) => r.keywordResults # None
          /\ r.knn <= r.embed /\ r.embed <= 1 /\ r.kw <= 1

\* a hybrid request has answered with identifiers of both paths
C20_Witness ==
    \E p \in SearchProcs :
      /\ Answered(p)
      /\ search[p].mode = "hybrid"
      /\ search[p].knn = 1
      /\ search[p].kw = 1
      /\ search[p].semanticResults # <<>>
      /\ search[p].keywordResults[1] # <<>>

\* the keyword results of the request r (none when the path did not run)
KeywordOf(r) == IF r.keywordResults = None THEN <<>> ELSE r.keywordResults[1]

IdSet(s) == {s[n].id : n \in 1..Len(s)}

\* the score the map m holds for id, 0 when it holds none
ScoreIn(m, id) == IF Has(m, id) THEN Lookup(m, id).score ELSE 0

\* C21: for every identifier of a search response (and of the merged list it
\* was cut from) semanticScore and keywordScore are the scores of the two
\* paths, 0 where a path has none, and combinedScore is semanticScore in
\* semantic mode, keywordScore in keyword mode and
\* w * semanticScore + (1 - w) * keywordScore in hybrid mode.
C21_CombinedScore ==
    \A p \in SearchProcs :
      Answered(p) =>
        LET r == search[p]
            w == r.semanticWeight
        IN  /\ \A n \in 1..Len(r.body[1].results) :
                 \E m \in 1..Len(r.merged) : r.merged[m] = r.body[1].results[n]
            /\ \A n \in 1..Len(r.merged) :
                 LET e == r.merged[n]
                 IN  /\ e.semanticScore = ScoreIn(r.semanticResults, e.id)
                     /\ e.keywordScore = ScoreIn(KeywordOf(r), e.id)
                     /\ r.mode = "semantic" =>
                          e.combinedScore = Unit * e.semanticScore
                     /\ r.mode = "keyword" =>
                          e.combinedScore = Unit * e.keywordScore
                     /\ r.mode = "hybrid" =>
                          e.combinedScore = w * e.semanticScore
                                              + (Unit - w) * e.keywordScore

\* a hybrid response with weight 0.7 holds an identifier with a score on
\* both sides and one with a score on one side only
C21_Witness ==
    \E p \in SearchProcs :
      /\ Answered(p)
      /\ search[p].mode = "hybrid"
      /\ search[p].semanticWeight = 70
      /\ \E n \in 1..Len(search[p].body[1].results) :
           /\ search[p].body[1].results[n].semanticScore > 0
           /\ search[p].body[1].results[n].keywordScore > 0
      /\ \E n \in 1..Len(search[p].body[1].results) :
           /\ search[p].body[1].results[n].semanticScore > 0
           /\ search[p].body[1].results[n].keywordScore = 0

\* C22: the merged candidates are the union of the identifiers the semantic
\* path retained and those the keyword path returned, each once; an
\* identifier of one path only has score 0 for the other; when the union
\* has at most `limit` identifiers the response holds all of them.
C22_MergedIsUnion ==
    \A p \in SearchProcs :
      Answered(p) =>
        LET r == search[p]
            union == IdSet(r.semanticResults) \cup IdSet(KeywordOf(r))
        IN  /\ IdSet(r.merged) = union
            /\ Len(r.merged) = Cardinality(union)
            /\ \A n \in 1..Len(r.merged) :
                 /\ r.merged[n].id \notin IdSet(r.semanticResults)
                      => r.merged[n].semanticScore = 0
                 /\ r.merged[n].id \notin IdSet(KeywordOf(r))
                      => r.merged[n].keywordScore = 0
            /\ IdSet(r.body[1].results) \subseteq union
            /\ Cardinality(union) <= r.limit
                 => IdSet(r.body[1].results) = union

\* a hybrid response holds the whole union of the two paths, one of which
\* has an identifier the other has not
C22_Witness ==
    \E p \in SearchProcs :
      /\ Answered(p)
      /\ search[p].mode = "hybrid"
      /\ IdSet(search[p].semanticResults) # IdSet(KeywordOf(search[p]))
      /\ Len(search[p].merged) = 2
      /\ search[p].limit = 2
      /\ Len(search[p].body[1].results) = 2

\* C23: the response lists its results by non-increasing combinedScore,
\* holds min(limit, size of the merged union) of them, and leaves out no
\* identifier with a combinedScore strictly greater than one it includes.
C23_SortedAndTruncated ==
    \A p \in SearchProcs :
      Answered(p) =>
        LET r == search[p]
            results == r.body[1].results
        IN  /\ \A n \in 1..(Len(results) - 1) :
                 results[n].combinedScore >= results[n + 1].combinedScore
            /\ Len(results) = Min(r.limit, Len(r.merged))
            /\ r.body[1].meta.resultCount = Len(results)
            /\ \A m \in 1..Len(r.merged) :
                 r.merged[m].id \notin IdSet(results) =>
                   \A n \in 1..Len(results) :
                     r.merged[m].combinedScore <= results[n].combinedScore

\* a response was cut from a longer merged list whose order of insertion is
\* not the order of the scores
C23_Witness ==
    \E p \in SearchProcs :
      /\ Answered(p)
      /\ Len(search[p].merged) > search[p].limit
      /\ \E m, n \in 1..Len(search[p].merged) :
           /\ m < n
           /\ n > search[p].limit
           /\ search[p].merged[m].combinedScore < search[p].merged[n].combinedScore

\* C24: every candidate the semantic path contributes was published in the
\* KNN answer, satisfies every filter that is set (category and language by
\* membership, region and gender by equality), is one of the at most
\* 4 x limit candidates of the KNN answer and has score 1 - distance (0
\* when the answer gave no distance).
C24_SemanticCandidates ==
    \A p \in SearchProcs :
      search[p].knnAnswer # None =>
        LET r == search[p]
            answer == r.knnAnswer[1]
            f == r.filters
        IN  /\ r.knnLimit = 4 * r.limit
            /\ Len(answer) <= 4 * r.limit
            /\ \A n \in 1..Len(r.semanticResults) :
                 LET id == r.semanticResults[n].id
                     data == InAnswer(answer, id).data
                 IN  /\ id \in IdSet(answer)
                     /\ data.is_published
                     /\ Truthy(f.category) =>
                          SimCategories(id) # None
                            /\ Includes(SimCategories(id)[1], f.category[1])
                     /\ Truthy(f.language) =>
                          Includes(SimLanguages(id), f.language[1])
                     /\ Truthy(f.region) => SimRegion(id) = f.region
                     /\ Truthy(f.gender) => SimGender(id) = f.gender
                     /\ r.semanticResults[n].score =
                          IF "_distance" \in DOMAIN data
                          THEN Unit - data._distance ELSE 0

\* the semantic path kept a candidate and dropped a published one that does
\* not have the language of the filter
C24_Witness ==
    \E p \in SearchProcs :
      /\ search[p].knnAnswer # None
      /\ Truthy(search[p].filters.language)
      /\ search[p].semanticResults # <<>>
      /\ \E n \in 1..Len(search[p].knnAnswer[1]) :
           LET doc == search[p].knnAnswer[1][n]
           IN  /\ doc.data.is_published
               /\ ~Includes(SimLanguages(doc.id), search[p].filters.language[1])
               /\ doc.id \notin IdSet(search[p].semanticResults)

\* C25: no record attached to a search result carries the embedding, in any
\* mode and from either path; an identifier the semantic path holds a
\* record for gets that record, any other the record of the keyword path.
C25_NoEmbeddingAttached ==
    \A p \in SearchProcs :
      Answered(p) =>
        LET r == search[p]
        IN  \A n \in 1..Len(r.merged) :
              LET e == r.merged[n]
              IN  /\ "embedding" \notin DOMAIN e.creator
                  /\ e.creator = IF Has(r.semanticDocs, e.id)
                                 THEN Lookup(r.semanticDocs, e.id).doc
                                 ELSE Lookup(r.allCreatorsMap, e.id)

\* a hybrid response attaches, for an identifier of both paths whose KNN
\* document carried the embedding, the record of the semantic path, which
\* differs from the record of the keyword path
C25_Witness ==
    \E p \in SearchProcs :
      /\ Answered(p)
      /\ \E n \in 1..Len(search[p].body[1].results) :
           LET e == search[p].body[1].results[n]
           IN  /\ Has(search[p].semanticDocs, e.id)
               /\ Has(search[p].allCreatorsMap, e.id)
               /\ "embedding" \in DOMAIN InAnswer(search[p].knnAnswer[1], e.id).data
               /\ e.creator # Lookup(search[p].allCreatorsMap, e.id)

\* does the record c satisfy every filter of f that is set
Accepts(c, f) ==
    /\ (f.category # None /\ f.category # Some(""))
         => f.category[1] \in Range(c.categories)
    /\ (f.region # None /\ f.region # Some(""))
         => c.region # None /\ c.region[1] = f.region[1]
    /\ (f.language # None /\ f.language # Some(""))
         => f.language[1] \in Range(c.languages)
    /\ (f.gender # None /\ f.gender # Some(""))
         => c.gender # None /\ c.gender[1] = f.gender[1]

\* C26: filterCreators returns exactly the records of its input, in input
\* order, that satisfy every filter that is set (an unset or empty filter
\* accepts everything), and the input collection and its records are after
\* the call what they were before.
C26_FilterCreators ==
    filterRun.pc = "returned" =>
      LET given == filterRun.given
          result == filterRun.result[1]
      IN  /\ IsSubsequence(result, given)
          /\ \A k \in 1..Len(given) :
               given[k] \in Range(result) <=> Accepts(given[k], filterRun.filters)
          /\ Len(result) =
               Cardinality({k \in 1..Len(given) :
                              Accepts(given[k], filterRun.filters)})
          /\ filterRun.creators = given

\* a call with two filters set and one empty returned some of its input
\* and dropped the rest
C26_Witness ==
    /\ filterRun.pc = "returned"
    /\ filterRun.filters.category = Some("")
    /\ filterRun.filters.language # None
    /\ filterRun.filters.gender # None
    /\ Len(filterRun.given) = 3
    /\ Len(filterRun.result[1]) \in {1, 2}

\* the creators that match the filters of the listing request r
ListMatching(r) ==
    {i \in DocIds :
       /\ (r.showDrafts = Some(TRUE) \/ docs[i].is_published)
       /\ r.category # None =>
            SimCategories(i) # None /\ r.category[1] \in Range(SimCategories(i)[1])
       /\ r.region # None => SimRegion(i) = r.region}

\* the matching creators that come after the cursor c (all of them when the
\* cursor is absent or names no document)
ListAfter(r, c) ==
    {i \in ListMatching(r) : (c # None /\ c[1] \in DocIds) => i > c[1]}

\* C27: a listing response has a non-null nextCursor exactly when more
\* matching creators exist beyond the returned page, the cursor is then the
\* identifier of the last creator of the page, and the pages followed from
\* nextCursor to nextCursor until it is null hold every matching creator.
C27_NextCursorIffMore ==
    \A p \in ListProcs :
      (listing[p].pc = "done" /\ listing[p].status = 200) =>
        LET r == listing[p]
            page == Ids(r.body[1].creators)
            beyond == ListAfter(r, r.cursor) \ Range(page)
        IN  /\ r.body[1].nextCursor # None <=> beyond # {}
            /\ r.body[1].nextCursor # None =>
                 page # <<>> /\ r.body[1].nextCursor = Some(page[Len(page)])
            /\ r.body[1].nextCursor = None =>
                 ListAfter(r, r.first[1]) \subseteq Range(r.seen)

\* the number of waitlist documents that hold the address email
StoredTimes(email) ==
    Cardinality({n \in 1..Len(waitlist) : waitlist[n].email = email})

\* C28: a signup for an email that is on the waitlist adds nothing and
\* answers 'Already on waitlist', and after any interleaving of signup
\* requests each email is stored at most once.
C28_EachEmailOnce ==
    /\ \A p \in SignupProcs :
         (signup[p].pc = "done" /\ signup[p].onList /\ signup[p].status # 500)
           => signup[p].status = 200 /\ signup[p].message = "Already on waitlist"
    /\ \A n \in 1..Len(waitlist) : StoredTimes(waitlist[n].email) = 1

\* task p obtains in this step a collection it read from the Distributed
\* Cache or the Document Store, installs it and returns it
ObtainsCollection(p) ==
    /\ req[p].pc \in {"redisGet", "fsLoad"}
    /\ req'[p].snap # None

\* the call of task p was in flight when the last invalidateCache ran
StartedBeforeInvalidate(p) == invalidated > 0 /\ req[p].cid < invalidated

\* nothing was loaded since the last invalidateCache, so what the
\* Distributed Cache holds was read from the Document Store before it
CacheContentPredatesInvalidate == invalidated > 0 /\ hist = {}

\* C29: after invalidateCache has returned, no getCachedCreators call
\* installs or returns a collection from before it: neither a call whose
\* load was in flight when invalidateCache ran, nor a call that reads the
\* Distributed Cache before the delete has taken effect.
C29_NothingFromBeforeInvalidate ==
    [][\A p \in Procs :
         ObtainsCollection(p) =>
           /\ ~StartedBeforeInvalidate(p)
           /\ ~(req[p].pc = "redisGet" /\ CacheContentPredatesInvalidate)]_vars

\* C30: the full index that answers an unfiltered search indexes exactly
\* the records of the snapshot that is current for that search, also when
\* the index was restored from the serialized form in the Distributed
\* Cache instead of being built from that snapshot.
C30_IndexMatchesSnapshot ==
    \A p \in Procs :
      (/\ req[p].pc = "done"
       /\ req[p].status = "ok"
       /\ req[p].op = "search"
       /\ ~hasFilters(req[p].filters)) =>
        /\ req[p].idx # None
        /\ req[p].idx[1].docs = req[p].snap[1]
        /\ req[p].idx[1].recs = req[p].snap[1].data

\* the filter tuple of f, an unset component taken as the empty string
FilterTuple(f) ==
    <<OrEmpty(f.category), OrEmpty(f.region), OrEmpty(f.language),
      OrEmpty(f.gender)>>

\* task p has completed a filtered search
FilteredDone(p) ==
    /\ req[p].pc = "done"
    /\ req[p].status = "ok"
    /\ req[p].op = "search"
    /\ hasFilters(req[p].filters)

\* C31: two filter tuples that differ in a component (an unset component
\* taken as the empty string) never have the same filter key, and no
\* filtered search is answered from the index that was built for another
\* filter tuple.
C31_FilterKeyInjective ==
    \A p, q \in Procs :
      (/\ req[p].op = "search"
       /\ req[q].op = "search"
       /\ FilterTuple(req[p].filters) # FilterTuple(req[q].filters)) =>
        /\ makeFilterKey(req[p].filters) # makeFilterKey(req[q].filters)
        /\ (FilteredDone(p) /\ FilteredDone(q))
             => req[p].idx[1].iid # req[q].idx[1].iid

\* C32: a filtered search is answered from a cached entry only when the
\* snapshot reference recorded with the entry is the snapshot that
\* getCachedCreators returned for this search; an entry recorded with
\* another reference is not reused, the index is built anew over the
\* snapshot of the search and recorded with its reference.
C32_ReuseOnlySameSnapshot ==
    [][\A p \in Procs : FilteredStep(p) =>
         LET key == makeFilterKey(req[p].filters)
             snap == req[p].snap[1]
         IN  /\ req'[p].reused =>
                  /\ MapHas(filteredCache, key)
                  /\ MapGet(filteredCache, key).creatorRef = snap.ref
                  /\ req'[p].idx = Some(MapGet(filteredCache, key).index)
             /\ (MapHas(filteredCache, key)
                   /\ MapGet(filteredCache, key).creatorRef # snap.ref) =>
                  /\ ~req'[p].reused
                  /\ req'[p].built = 1
                  /\ req'[p].idx[1].iid = nextIid
                  /\ req'[p].idx[1].docs.data =
                       filterCreators(snap.data, req[p].filters)
             /\ MapHas(filteredCache', key) =>
                  /\ MapGet(filteredCache', key).creatorRef = snap.ref
                  /\ MapGet(filteredCache', key).index = req'[p].idx[1]]_vars

\* two overlapping searches with the same filters got different snapshots:
\* the later one found the entry of the earlier one and built its own index
C32_Witness ==
    \E p, q \in Procs :
      /\ FilteredDone(p) /\ FilteredDone(q)
      /\ req[p].filters = req[q].filters
      /\ req[p].snap[1].ref # req[q].snap[1].ref
      /\ req[p].built = 1 /\ req[q].built = 1
      /\ req[p].idx[1].iid < req[q].idx[1].iid
      /\ MapGet(filteredCache, makeFilterKey(req[q].filters)).creatorRef
           = req[q].snap[1].ref

\* C33: the timestamp of a filtered-index entry is the time it was last
\* used: after a filtered search, hit or build, the entry of its filter key
\* carries the time of that search.
C33_TimestampIsLastUse ==
    [][\A p \in Procs : FilteredStep(p) =>
         LET key == makeFilterKey(req[p].filters)
         IN  MapHas(filteredCache', key) =>
               MapGet(filteredCache', key).timestamp = clock]_vars

\* C34: except through invalidateCache, the timestamp of the in-process
\* entry never decreases, and the entry is never replaced by a collection
\* that was read earlier than the one it holds.
C34_EntryNeverGoesBack ==
    [][Invalidates \/
         /\ memCacheTime' >= memCacheTime
         /\ (memCache # None /\ memCache' # None)
              => memCache'[1].readAt >= memCache[1].readAt]_vars

\* C35: every collection getCachedCreators returns was read from the
\* Document Store less than 300 s before the call that returns it, also
\* when it was adopted from the Distributed Cache.
C35_ReturnedWithinTTLOfRead ==
    \A p \in Procs :
      (req[p].op = "get" /\ req[p].pc = "done" /\ req[p].status = "ok") =>
        req[p].now - req[p].snap[1].readAt < CACHE_TTL_SECONDS * 1000

\* the source document of request p is read and answered in this step
SourceRead(p) == sim[p].pc = "docGet" /\ sim'[p].pc # "docGet"

\* the record of request p carries a non-empty similarity-cache field that a
\* write-back stored (only write-backs set the computed-at timestamp)
WrittenBack(p) ==
    /\ sim[p].creatorId \in DocIds
    /\ docs[sim[p].creatorId].precomputed_similar_at # None
    /\ docs[sim[p].creatorId].precomputed_similar # None
    /\ Len(docs[sim[p].creatorId].precomputed_similar[1]) > 0

\* what the live-KNN stage returns for request p on the present collection
LiveKnn(p) ==
    knnSimilar(findNearest(sim[p].creatorId, (sim[p].limit + 1) * 2, TRUE),
               sim[p].creatorId, sim[p].limit)

\* C36: once a write-back has stored a non-empty similarity-cache field on
\* a record, every request that reads that record afterwards is answered
\* from the field as it stands, with no KNN query and no write-back,
\* however much time has passed since the field was computed.
C36_WrittenFieldAlwaysServes ==
    [][\A p \in SimProcs :
         (SourceRead(p) /\ WrittenBack(p) /\ sim'[p].status # 500) =>
           /\ sim'[p].pc = "done"
           /\ sim'[p].status = 200
           /\ sim'[p].body =
                Some(precomputedBody(
                       docs[sim[p].creatorId].precomputed_similar[1],
                       sim[p].limit))
           /\ sim'[p].knn = 0
           /\ sim'[p].wb = 0
           /\ writes' = writes
           /\ docs' = docs]_vars

\* a request answered from a field that a write-back computed a snapshot
\* TTL or more earlier
C36_Witness ==
    \E p \in SimProcs :
      /\ Resolved(p)
      /\ "precomputed" \in DOMAIN sim[p].body[1]
      /\ sim[p].knn = 0
      /\ docs[sim[p].creatorId].precomputed_similar_at # None
      /\ clock - docs[sim[p].creatorId].precomputed_similar_at[1]
           >= CACHE_TTL_MS

\* C37: a request with limit L answered from a field written back by an
\* earlier request returns the identifiers that the live-KNN stage returns
\* for limit L at that moment.
C37_WriteBackTransparent ==
    [][\A p \in SimProcs :
         (SourceRead(p) /\ WrittenBack(p) /\ sim'[p].status = 200) =>
           Ids(sim'[p].body[1].results) = Ids(LiveKnn(p))]_vars

\* C38: every creator in the results of a similarity request is published
\* when the response is produced.
C38_ResultsPublished ==
    [][\A p \in SimProcs :
         (sim[p].pc # "done" /\ sim'[p].pc = "done" /\ sim'[p].status = 200) =>
           \A n \in 1..Len(sim'[p].body[1].results) :
             docs[sim'[p].body[1].results[n].id].is_published]_vars
====
